---- MODULE Spec2Model ----
(***************************************************************************)
(* The documentation viewer of build_docs.py: collect_docs gathers the     *)
(* markdown fragments, generate_html assembles the navigation and the      *)
(* embedded page corpus, and the embedded script (parseMarkdown, loadPage,  *)
(* the click and hashchange handlers) renders and routes pages.            *)
(*                                                                         *)
(* Program strings are sequences of one-character strings, so that         *)
(* concatenation, comparison, escaping and parsing are computed and not    *)
(* assumed.                                                                *)
(***************************************************************************)
EXTENDS Integers, Sequences, FiniteSets, TLC

VARIABLES
    fs,               \* the files collect_docs finds: [claude, files]
    pc,               \* position of the build / of the viewer
    docs,             \* collect_docs: the dict docs, in insertion order
    sorted_docs,      \* collect_docs: sorted_docs; generate_html's parameter docs
    idx,              \* generate_html: entries of the for loop already processed
    nav_items,        \* generate_html: nav_items
    current_section,  \* generate_html: current_section
    pages_json,       \* generate_html: pages_json, embedded in the <script> element
    PAGES,            \* script: Object.values(PAGES), each with its key
    initialHash,      \* script: const initialHash
    content_html,     \* document.getElementById('content').innerHTML
    active,           \* indices (in document order) of the .nav-link elements of class active
    location_hash,    \* window.location.hash
    pending,          \* hashchange events queued and not yet handled
    sidebar_open,     \* sidebar.classList.contains('open')
    menu_text,        \* menuToggle.textContent
    inner_width,      \* window.innerWidth
    scroll_y,         \* vertical scroll position of the window
    console_error,    \* page ids console.error has reported as not found
    thrown,           \* an uncaught exception ended the script's top level
    md_arg,           \* parseMarkdown: the argument md of the call under way
    md_lines,         \* parseMarkdown: lines
    line_i,           \* parseMarkdown: the loop's i, counted from 1
    locals,           \* parseMarkdown: html and the other local variables
    rpc,              \* parseMarkdown: "idle", "loop" or "returned"
    visited,          \* parseMarkdown: the values of i the loop body has run with
    returned,         \* the calls of parseMarkdown that returned: [md, html] each
    id_text,          \* makeId: the argument text
    anchors,          \* makeId: the value returned for text, then for that value
    entries,          \* clean_dataset: entries
    limit,            \* clean_dataset: the parameter limit, 0 for None
    dry_run,          \* clean_dataset: the parameter dry_run
    clean_i,          \* clean_dataset: entries the for loop has finished with
    cleaned_entries,  \* clean_dataset: cleaned_entries
    dropped_entries,  \* clean_dataset: dropped_entries
    stats,            \* DatasetCleaner: self.stats
    cpc,              \* clean_dataset: "off", "start", "loop", "raised_..." or "done"
    output_file,      \* the file at output_path, one entry per line
    dropped_file      \* the file at dropped_path, one item per line

build_vars == <<fs, pc, docs, sorted_docs, idx, nav_items, current_section, pages_json>>
view_vars == <<PAGES, initialHash, content_html, active, location_hash, pending,
               sidebar_open, menu_text, inner_width, scroll_y, console_error, thrown>>
build_vars_but_pc == <<fs, docs, sorted_docs, idx, nav_items, current_section, pages_json>>
call_vars == <<md_arg, md_lines, line_i, locals, rpc, visited, returned, id_text, anchors>>
clean_vars == <<entries, limit, dry_run, clean_i, cleaned_entries, dropped_entries, stats,
                cpc, output_file, dropped_file>>
vars == <<build_vars, view_vars, call_vars, clean_vars>>

-----------------------------------------------------------------------------
(* Bounds of the model *)

\* most entries of a mapping handed to the final sort and to generate_html
MaxDocs == 3
\* most markdown files found under docs/
MaxFiles == 2
\* most hashchange events queued at once
MaxPending == 2

-----------------------------------------------------------------------------
(* Characters and strings *)

\* two characters a string literal of this TLA+ cannot hold, each named by one string:
\* the rightwards arrow (code point 8594) and the grave accent (code point 96)
Arrow == "rightarrow"
Backtick == "grave"

\* the printable ASCII characters, in code point order from 32 to 126
Printable ==
    <<" ", "!", "\"", "#", "$", "%", "&", "'", "(", ")", "*", "+", ",", "-", ".", "/",
      "0", "1", "2", "3", "4", "5", "6", "7", "8", "9", ":", ";", "<", "=", ">", "?",
      "@", "A", "B", "C", "D", "E", "F", "G", "H", "I", "J", "K", "L", "M", "N", "O",
      "P", "Q", "R", "S", "T", "U", "V", "W", "X", "Y", "Z", "[", "\\", "]", "^", "_",
      Backtick, "a", "b", "c", "d", "e", "f", "g", "h", "i", "j", "k", "l", "m", "n", "o",
      "p", "q", "r", "s", "t", "u", "v", "w", "x", "y", "z", "{", "|", "}", "~">>

Chars == {Printable[i] : i \in 1..Len(Printable)} \cup {"\n", Arrow}

\* the Unicode code point of each character
CodeTable ==
    [c \in Chars |->
        IF c = "\n" THEN 10
        ELSE IF c = Arrow THEN 8594
        ELSE 31 + (CHOOSE i \in 1..Len(Printable) : Printable[i] = c)]

Code(c) == CodeTable[c]

Chr(n) == Printable[n - 31]

IsUpper(c) == Code(c) >= 65 /\ Code(c) <= 90
IsLower(c) == Code(c) >= 97 /\ Code(c) <= 122
IsAlpha(c) == IsUpper(c) \/ IsLower(c)
IsDigit(c) == Code(c) >= 48 /\ Code(c) <= 57
IsSpace(c) == c = " " \/ c = "\n"
ToUpper(c) == IF IsLower(c) THEN Chr(Code(c) - 32) ELSE c
ToLower(c) == IF IsUpper(c) THEN Chr(Code(c) + 32) ELSE c

\* s[i:], s.substring(i - 1)
From(s, i) == SubSeq(s, i, Len(s))

StartsWithAt(s, p, i) ==
    /\ i >= 1
    /\ i + Len(p) - 1 <= Len(s)
    /\ \A k \in 1..Len(p) : s[i + k - 1] = p[k]

StartsWith(s, p) == StartsWithAt(s, p, 1)
EndsWith(s, p) == StartsWithAt(s, p, Len(s) - Len(p) + 1)

\* positions at which p occurs in s
Occurrences(s, p) == {i \in 1..(Len(s) - Len(p) + 1) : StartsWithAt(s, p, i)}
Contains(s, p) == Occurrences(s, p) # {}

SetMin(S) == CHOOSE x \in S : \A y \in S : x <= y
SetMax(S) == CHOOSE x \in S : \A y \in S : x >= y

ReplaceChar(s, a, b) == [i \in 1..Len(s) |-> IF s[i] = a THEN b ELSE s[i]]

\* the concatenation of a sequence of strings
Concat(ss) ==
    CHOOSE joined \in
        {LET upto[k \in 0..Len(parts)] == IF k = 0 THEN <<>> ELSE upto[k - 1] \o parts[k]
         IN  upto[Len(parts)] : parts \in {ss}} : TRUE

RECURSIVE StrLess(_, _)
\* a < b on Python str: lexicographic by code point
StrLess(a, b) ==
    IF b = <<>> THEN FALSE
    ELSE IF a = <<>> THEN TRUE
    ELSE IF Head(a) # Head(b) THEN Code(Head(a)) < Code(Head(b))
    ELSE StrLess(Tail(a), Tail(b))

\* str.title(): a letter is upper-cased when it follows no letter, lower-cased otherwise
PyTitle(s) ==
    [i \in 1..Len(s) |->
        IF ~IsAlpha(s[i]) THEN s[i]
        ELSE IF i > 1 /\ IsAlpha(s[i - 1]) THEN ToLower(s[i])
        ELSE ToUpper(s[i])]

-----------------------------------------------------------------------------
(* Python dicts in insertion order: a sequence of <<key, value>> items *)

Keys(d) == {d[i][1] : i \in 1..Len(d)}

\* d.setdefault(k, v): an existing key keeps its value
DictSetKeepingFirst(d, k, v) == IF k \in Keys(d) THEN d ELSE Append(d, <<k, v>>)

\* d[k] = v: an existing key keeps its position, a new key is appended
DictSet(d, k, v) ==
    IF k \in Keys(d)
    THEN [i \in 1..Len(d) |-> IF d[i][1] = k THEN <<k, v>> ELSE d[i]]
    ELSE Append(d, <<k, v>>)

RECURSIVE DictOf(_)
\* dict(items)
DictOf(items) ==
    IF items = <<>> THEN <<>>
    ELSE DictSet(DictOf(SubSeq(items, 1, Len(items) - 1)),
                 items[Len(items)][1], items[Len(items)][2])

\* info.get('section', '')
GetSection(info) == IF "section" \in DOMAIN info THEN info.section ELSE <<>>

-----------------------------------------------------------------------------
(* collect_docs: gathering the files *)

\* the arrow between two spaces that joins a section name and a title
TitleSep == <<" ",Arrow," ">>

\* the dict sections, in its literal's order
SectionTable ==
    <<[subdir |-> <<"g","e","t","t","i","n","g","-","s","t","a","r","t","e","d">>, name |-> <<"G","e","t","t","i","n","g"," ","S","t","a","r","t","e","d">>, order |-> 1],
      [subdir |-> <<"l","a","n","g","u","a","g","e","-","g","u","i","d","e">>, name |-> <<"L","a","n","g","u","a","g","e"," ","G","u","i","d","e">>, order |-> 2],
      [subdir |-> <<"a","d","v","a","n","c","e","d">>, name |-> <<"A","d","v","a","n","c","e","d"," ","T","o","p","i","c","s">>, order |-> 3],
      [subdir |-> <<"r","e","f","e","r","e","n","c","e">>, name |-> <<"A","P","I"," ","R","e","f","e","r","e","n","c","e">>, order |-> 4],
      [subdir |-> <<"d","e","s","i","g","n">>, name |-> <<"D","e","s","i","g","n"," ","&"," ","P","h","i","l","o","s","o","p","h","y">>, order |-> 5],
      [subdir |-> <<"c","o","n","t","r","i","b","u","t","i","n","g">>, name |-> <<"C","o","n","t","r","i","b","u","t","i","n","g">>, order |-> 6]>>

\* md_file.name and str(md_file) of a file [subdir, stem, content] under docs/
FileName(f) == f.stem \o <<".","m","d">>
FilePath(f) == <<"d","o","c","s","/">> \o f.subdir \o <<"/">> \o FileName(f)

RECURSIVE SortedFiles(_)
\* sorted(subdir_path.glob('*.md')): the paths of one directory, by file name
SortedFiles(S) ==
    IF S = {} THEN <<>>
    ELSE LET f == CHOOSE x \in S : \A y \in S : x = y \/ StrLess(FileName(x), FileName(y))
         IN  <<f>> \o SortedFiles(S \ {f})

\* file_name.replace('-', ' ').replace('_', ' ').title()
FileTitle(stem) == PyTitle(ReplaceChar(ReplaceChar(stem, "-", " "), "_", " "))

\* f"{subdir}-{file_name}"
DocId(subdir, stem) == subdir \o <<"-">> \o stem

RECURSIVE CollectFiles(_, _, _)
\* the loop over the files of one section
CollectFiles(d, sec, files) ==
    IF files = <<>> THEN d
    ELSE LET f == Head(files)
         IN  IF Contains(FilePath(f), <<"d","e","v","e","l","o","p","m","e","n","t">>)
             THEN CollectFiles(d, sec, Tail(files))
             ELSE CollectFiles(
                    DictSet(d, sec.name \o TitleSep \o FileTitle(f.stem),
                            [id |-> DocId(f.subdir, f.stem), content |-> f.content,
                             order |-> sec.order, section |-> sec.name]),
                    sec, Tail(files))

RECURSIVE CollectSections(_, _, _)
\* the loop over sections.items()
CollectSections(d, secs, files) ==
    IF secs = <<>> THEN d
    ELSE CollectSections(
            CollectFiles(d, Head(secs),
                         SortedFiles({f \in files : f.subdir = Head(secs).subdir})),
            Tail(secs), files)

\* the dict docs before the final sort; a directory that does not exist holds no file
CollectedDocs(files_found) ==
    CollectSections(
        IF files_found.claude.some
        THEN <<<<<<"L","a","n","g","u","a","g","e"," ","R","e","f","e","r","e","n","c","e">>,
                 [id |-> <<"l","a","n","g","u","a","g","e","-","r","e","f","e","r","e","n","c","e">>, content |-> files_found.claude.val, order |-> 0]>>>>
        ELSE <<>>,
        SectionTable, files_found.files)

-----------------------------------------------------------------------------
(* collect_docs: the final sort *)

\* the key with its components swapped: (x[0], x[1]['order'])
KeyLeqTitleFirst(x, y) ==
    \/ StrLess(x[1], y[1])
    \/ x[1] = y[1] /\ x[2].order <= y[2].order

\* the key without its second component: x[1]['order'] alone
KeyLeqOrderOnly(x, y) == x[2].order <= y[2].order

\* key(x) <= key(y) for key = lambda x: (x[1]['order'], x[0])
KeyLeq(x, y) ==
    \/ x[2].order < y[2].order
    \/ x[2].order = y[2].order /\ (x[1] = y[1] \/ StrLess(x[1], y[1]))

\* x placed after every item of the sorted sequence s whose key is <= its own
InsertSorted(s, x) ==
    LET n == Cardinality({i \in 1..Len(s) : KeyLeq(s[i], x)})
    IN  SubSeq(s, 1, n) \o <<x>> \o SubSeq(s, n + 1, Len(s))

RECURSIVE Sorted(_)
\* sorted(items, key=...): a stable sort
Sorted(items) ==
    IF items = <<>> THEN <<>>
    ELSE InsertSorted(Sorted(SubSeq(items, 1, Len(items) - 1)), items[Len(items)])

-----------------------------------------------------------------------------
(* generate_html: the navigation *)

None == [some |-> FALSE, val |-> <<>>]
Some(v) == [some |-> TRUE, val |-> v]

\* the strings appended to nav_items
NavOpen == [kind |-> "open", id |-> <<>>, text |-> <<>>]
NavClose == [kind |-> "close", id |-> <<>>, text |-> <<>>]
NavTitle(t) == [kind |-> "title", id |-> <<>>, text |-> t]
NavLink(i, t) == [kind |-> "link", id |-> i, text |-> t]

MainMarker == <<"m","a","i","n">>

\* title.split(sep)[-1] if sep in title else title, sep the arrow between spaces
NavTitleOf(title) ==
    IF Contains(title, TitleSep)
    THEN From(title, SetMax(Occurrences(title, TitleSep)) + Len(TitleSep))
    ELSE title

\* the section header that opens a group of a new section without closing the one
\* that is open
SectionHeaderNesting(cur, section) ==
    IF section # <<>> /\ ~(cur.some /\ cur.val = section)
    THEN [out |-> <<NavOpen, NavTitle(PyTitle(ReplaceChar(section, "-", " ")))>>,
          cur |-> Some(section)]
    ELSE IF section = <<>> /\ cur.some
    THEN [out |-> <<NavClose>>, cur |-> None]
    ELSE IF section = <<>> /\ ~cur.some
    THEN [out |-> <<NavOpen>>, cur |-> Some(MainMarker)]
    ELSE [out |-> <<>>, cur |-> cur]

\* the section header of one loop iteration: what it appends and the new current_section
SectionHeader(cur, section) ==
    IF section # <<>> /\ ~(cur.some /\ cur.val = section)
    THEN [out |-> (IF cur.some THEN <<NavClose>> ELSE <<>>)
                  \o <<NavOpen, NavTitle(PyTitle(ReplaceChar(section, "-", " ")))>>,
          cur |-> Some(section)]
    ELSE IF section = <<>> /\ cur.some
    THEN [out |-> <<NavClose>>, cur |-> None]
    ELSE IF section = <<>> /\ ~cur.some
    THEN [out |-> <<NavOpen>>, cur |-> Some(MainMarker)]
    ELSE [out |-> <<>>, cur |-> cur]

-----------------------------------------------------------------------------
(* generate_html: the embedded page corpus *)

\* a line feed written as a space
JsonCharFlattening(c) ==
    IF c = "\"" THEN <<"\\","\"">>
    ELSE IF c = "\\" THEN <<"\\","\\">>
    ELSE IF c = "\n" THEN <<" ">>
    ELSE <<c>>

\* json.dumps of one character of a str, ensure_ascii=False
JsonChar(c) ==
    IF c = "\"" THEN <<"\\","\"">>
    ELSE IF c = "\\" THEN <<"\\","\\">>
    ELSE IF c = "\n" THEN <<"\\","n">>
    ELSE <<c>>

JsonString(s) == <<"\"">> \o Concat([i \in 1..Len(s) |-> JsonChar(s[i])]) \o <<"\"">>

\* the entry with the title written where the id belongs
JsonPageTitleAsId(item) ==
    JsonString(item[1]) \o <<":"," ","{","\"","i","d","\"",":"," ">> \o JsonString(item[1])
        \o <<","," ","\"","c","o","n","t","e","n","t","\"",":"," ">> \o JsonString(item[2].content) \o <<"}">>

\* "title": {"id": "...", "content": "..."}
JsonPage(item) ==
    JsonString(item[1]) \o <<":"," ","{","\"","i","d","\"",":"," ">> \o JsonString(item[2].id)
        \o <<","," ","\"","c","o","n","t","e","n","t","\"",":"," ">> \o JsonString(item[2].content) \o <<"}">>

RECURSIVE JsonJoin(_)
JsonJoin(parts) ==
    IF parts = <<>> THEN <<>>
    ELSE IF Len(parts) = 1 THEN parts[1]
    ELSE parts[1] \o <<","," ">> \o JsonJoin(Tail(parts))

\* json.dumps({title: {'id': ..., 'content': ...} for title, info in docs.items()})
JsonDumpsPages(d) == <<"{">> \o JsonJoin([i \in 1..Len(d) |-> JsonPage(d[i])]) \o <<"}">>

-----------------------------------------------------------------------------
(* The script: const PAGES = {pages_json}; *)

\* the character an escape sequence of a string literal stands for
JsUnescape(c) == IF c = "n" THEN "\n" ELSE c

RECURSIVE ScanString(_, _, _)
\* the value of the string literal whose characters start at t[j], and the
\* position after its closing quote
ScanString(t, j, acc) ==
    IF t[j] = "\"" THEN [val |-> acc, next |-> j + 1]
    ELSE IF t[j] = "\\" THEN ScanString(t, j + 2, Append(acc, JsUnescape(t[j + 1])))
    ELSE ScanString(t, j + 1, Append(acc, t[j]))

RECURSIVE ParseEntries(_, _, _)
\* the properties of the object literal, in source order, from position i on:
\* "key": {"id": "...", "content": "..."}
ParseEntries(t, i, acc) ==
    IF t[i] = "}" THEN acc
    ELSE LET k == ScanString(t, i + 1, <<>>)
             d == ScanString(t, k.next + Len(<<":"," ","{","\"","i","d","\"",":"," ","\"">>), <<>>)
             c == ScanString(t, d.next + Len(<<","," ","\"","c","o","n","t","e","n","t","\"",":"," ","\"">>), <<>>)
             e == [key |-> k.val, id |-> d.val, content |-> c.val]
         IN  ParseEntries(t, IF t[c.next + 1] = "," THEN c.next + 3 ELSE c.next + 1,
                          Append(acc, e))

\* a canonical array index: such property keys are enumerated first, in numeric order
IsArrayIndex(key) ==
    /\ key # <<>>
    /\ \A i \in 1..Len(key) : IsDigit(key[i])
    /\ (key[1] = "0" => Len(key) = 1)

RECURSIVE NumVal(_)
NumVal(key) ==
    IF key = <<>> THEN 0
    ELSE 10 * NumVal(SubSeq(key, 1, Len(key) - 1)) + (Code(key[Len(key)]) - 48)

RECURSIVE ByIndex(_)
\* the entries with array-index keys in ascending numeric order
ByIndex(es) ==
    IF es = <<>> THEN <<>>
    ELSE LET m == CHOOSE i \in 1..Len(es) :
                    \A j \in 1..Len(es) : NumVal(es[i].key) <= NumVal(es[j].key)
         IN  <<es[m]>> \o ByIndex(SubSeq(es, 1, m - 1) \o SubSeq(es, m + 1, Len(es)))

\* Object.values(PAGES), each value with its key
ObjectValues(t) ==
    LET es == ParseEntries(t, 2, <<>>)
    IN  ByIndex(SelectSeq(es, LAMBDA e : IsArrayIndex(e.key)))
        \o SelectSeq(es, LAMBDA e : ~IsArrayIndex(e.key))

\* the html parser ends the script element at the first </script
ScriptEnd == <<"<","/","s","c","r","i","p","t">>
ClosesScript(t) == Contains([i \in 1..Len(t) |-> ToLower(t[i])], ScriptEnd)

\* document.querySelectorAll('.nav-link'): the data-page of each link, in document order
NavLinks(items) ==
    LET ls == SelectSeq(items, LAMBDA it : it.kind = "link")
    IN  [i \in 1..Len(ls) |-> ls[i].id]

-----------------------------------------------------------------------------
(* The script: parseMarkdown *)

\* s.split(c): the pieces of s between the places of c
Split(s, c) ==
    CHOOSE pieces \in
        {LET from[k \in 1..(Len(str) + 1)] ==
                 IF \A i \in k..Len(str) : str[i] # c THEN <<SubSeq(str, k, Len(str))>>
                 ELSE <<SubSeq(str, k, SetMin({i \in k..Len(str) : str[i] = c}) - 1)>>
                      \o from[SetMin({i \in k..Len(str) : str[i] = c}) + 1]
         IN  from[1] : str \in {s}} : TRUE

\* s.trimEnd() leaving the string as it is
TrimEndNone(s) == s

\* s.trimEnd(), s.trim()
TrimEnd(s) ==
    LET keep == {i \in 1..Len(s) : ~IsSpace(s[i])}
    IN  IF keep = {} THEN <<>> ELSE SubSeq(s, 1, SetMax(keep))
Trim(s) ==
    LET keep == {i \in 1..Len(s) : ~IsSpace(s[i])}
    IN  IF keep = {} THEN <<>> ELSE SubSeq(s, SetMin(keep), SetMax(keep))

\* the first position from i on at which p occurs in s, 0 when there is none
Find(s, p, i) ==
    LET at == {k \in Occurrences(s, p) : k >= i}
    IN  IF at = {} THEN 0 ELSE SetMin(at)

\* /\*\*(.+?)\*\*/ at position i: the length of the match and its replacement
BoldAt(t, i) ==
    LET close == IF StartsWithAt(t, <<"*","*">>, i) THEN Find(t, <<"*","*">>, i + 3) ELSE 0
    IN  IF close > 0 /\ \A k \in (i + 2)..(close - 1) : t[k] # "\n"
        THEN [len |-> close + 2 - i,
              out |-> <<"<","s","t","r","o","n","g",">">> \o SubSeq(t, i + 2, close - 1) \o <<"<","/","s","t","r","o","n","g",">">>]
        ELSE [len |-> 0, out |-> <<>>]

\* /\*([^*]+)\*/ at position i
ItalicAt(t, i) ==
    LET close == IF t[i] = "*" THEN Find(t, <<"*">>, i + 1) ELSE 0
    IN  IF close > i + 1
        THEN [len |-> close + 1 - i,
              out |-> <<"<","e","m",">">> \o SubSeq(t, i + 1, close - 1) \o <<"<","/","e","m",">">>]
        ELSE [len |-> 0, out |-> <<>>]

\* /`([^`]+)`/ at position i
CodeAt(t, i) ==
    LET close == IF t[i] = Backtick THEN Find(t, <<Backtick>>, i + 1) ELSE 0
    IN  IF close > i + 1
        THEN [len |-> close + 1 - i,
              out |-> <<"<","c","o","d","e",">">> \o SubSeq(t, i + 1, close - 1) \o <<"<","/","c","o","d","e",">">>]
        ELSE [len |-> 0, out |-> <<>>]

\* /\[([^\]]+)\]\(([^)]+)\)/ at position i
LinkAt(t, i) ==
    LET rb == IF t[i] = "[" THEN Find(t, <<"]">>, i + 1) ELSE 0
        rp == IF rb > i + 1 /\ StartsWithAt(t, <<"(">>, rb + 1) THEN Find(t, <<")">>, rb + 2) ELSE 0
    IN  IF rp > rb + 2
        THEN [len |-> rp + 1 - i,
              out |-> <<"<","a"," ","h","r","e","f","=","\"">> \o SubSeq(t, rb + 2, rp - 1) \o <<"\"",">">>
                      \o SubSeq(t, i + 1, rb - 1) \o <<"<","/","a",">">>]
        ELSE [len |-> 0, out |-> <<>>]

\* text.replace(/re/g, ...) from position i on: the leftmost match, then on after it
ReplaceAll(MatchAt(_, _), t, i) ==
    LET from[k \in i..(Len(t) + 1)] ==
            IF k > Len(t) THEN <<>>
            ELSE IF MatchAt(t, k).len > 0
                 THEN MatchAt(t, k).out \o from[k + MatchAt(t, k).len]
                 ELSE <<t[k]>> \o from[k + 1]
    IN  from[i]

\* the replacements with the italic one first
processInlineItalicFirst(text) ==
    CHOOSE linked \in
        {ReplaceAll(LinkAt, coded, 1) : coded \in
            {ReplaceAll(CodeAt, bold, 1) : bold \in
                {ReplaceAll(BoldAt, italic, 1) : italic \in
                    {ReplaceAll(ItalicAt, plain, 1) : plain \in {text}}}}} : TRUE

\* the four replacements, each on the value the one before has returned
processInlineMarkdown(text) ==
    CHOOSE linked \in
        {ReplaceAll(LinkAt, coded, 1) : coded \in
            {ReplaceAll(CodeAt, italic, 1) : italic \in
                {ReplaceAll(ItalicAt, bold, 1) : bold \in
                    {ReplaceAll(BoldAt, plain, 1) : plain \in {text}}}}} : TRUE

\* /\w/, /[\w\s-]/
IsWord(c) == IsAlpha(c) \/ IsDigit(c) \/ c = "_"
IsIdChar(c) == IsWord(c) \/ IsSpace(c) \/ c = "-"

\* every whitespace character replaced by a hyphen: /\s/g for /\s+/g
SquashEachSpace(s) == [k \in 1..Len(s) |-> IF IsSpace(s[k]) THEN "-" ELSE s[k]]

\* .replace(/\s+/g, '-'): one hyphen where a run of whitespace starts
SquashSpace(s) ==
    Concat([k \in 1..Len(s) |->
              IF ~IsSpace(s[k]) THEN <<s[k]>>
              ELSE IF k > 1 /\ IsSpace(s[k - 1]) THEN <<>>
              ELSE <<"-">>])

\* .replace(/^-+|-+$/g, '')
StripHyphens(s) ==
    LET keep == {i \in 1..Len(s) : s[i] # "-"}
    IN  IF keep = {} THEN <<>> ELSE SubSeq(s, SetMin(keep), SetMax(keep))

makeId(text) ==
    CHOOSE stripped \in
        {StripHyphens(squashed) : squashed \in
            {SquashSpace(kept) : kept \in
                {SelectSeq([i \in 1..Len(str) |-> ToLower(str[i])], IsIdChar) :
                    str \in {text}}}} : TRUE

\* escapeHtml returning its argument as it is
escapeHtmlNone(text) == text

\* escapeHtml: the innerHTML of a text node
EscapeChar(c) ==
    IF c = "&" THEN <<"&","a","m","p",";">>
    ELSE IF c = "<" THEN <<"&","l","t",";">>
    ELSE IF c = ">" THEN <<"&","g","t",";">>
    ELSE <<c>>
escapeHtml(text) == Concat([i \in 1..Len(text) |-> EscapeChar(text[i])])

\* the local variables of parseMarkdown before the first line
RenderStart ==
    [html |-> <<>>, inCodeBlock |-> FALSE, codeBlockContent |-> <<>>, codeBlockLang |-> <<>>,
     inList |-> FALSE, listContent |-> <<>>, inBlockquote |-> FALSE, blockquoteContent |-> <<>>]

\* flushList leaving the items it has put out in listContent
flushListKeeping(st) ==
    IF st.inList /\ st.listContent # <<>>
    THEN [st EXCEPT !.html = @ \o <<"<","u","l",">","\n">> \o st.listContent \o <<"<","/","u","l",">","\n">>,
                    !.inList = FALSE]
    ELSE st

\* flushList leaving the list open
flushListStayingOpen(st) ==
    IF st.inList /\ st.listContent # <<>>
    THEN [st EXCEPT !.html = @ \o <<"<","u","l",">">> \o <<"\n">> \o st.listContent \o <<"<","/","u","l",">">> \o <<"\n">>,
                    !.listContent = <<>>]
    ELSE st

flushList(st) ==
    IF st.inList /\ st.listContent # <<>>
    THEN [st EXCEPT !.html = @ \o <<"<","u","l",">","\n">> \o st.listContent \o <<"<","/","u","l",">","\n">>,
                    !.listContent = <<>>, !.inList = FALSE]
    ELSE st

\* flushBlockquote without the trim of the buffered text
flushBlockquoteUntrimmed(st) ==
    IF st.inBlockquote /\ st.blockquoteContent # <<>>
    THEN [st EXCEPT !.html = @ \o <<"<","b","l","o","c","k","q","u","o","t","e",">">>
                                 \o processInlineMarkdown(st.blockquoteContent)
                                 \o <<"<","/","b","l","o","c","k","q","u","o","t","e",">">> \o <<"\n">>,
                    !.blockquoteContent = <<>>, !.inBlockquote = FALSE]
    ELSE st

\* flushBlockquote putting the element in front of what has been put out
flushBlockquotePrepending(st) ==
    IF st.inBlockquote /\ st.blockquoteContent # <<>>
    THEN [st EXCEPT !.html = <<"<","b","l","o","c","k","q","u","o","t","e",">">>
                             \o processInlineMarkdown(Trim(st.blockquoteContent))
                             \o <<"<","/","b","l","o","c","k","q","u","o","t","e",">">> \o <<"\n">> \o @,
                    !.blockquoteContent = <<>>, !.inBlockquote = FALSE]
    ELSE st

flushBlockquote(st) ==
    IF st.inBlockquote /\ st.blockquoteContent # <<>>
    THEN [st EXCEPT !.html = @ \o <<"<","b","l","o","c","k","q","u","o","t","e",">">>
                                 \o processInlineMarkdown(Trim(st.blockquoteContent))
                                 \o <<"<","/","b","l","o","c","k","q","u","o","t","e",">","\n">>,
                    !.blockquoteContent = <<>>, !.inBlockquote = FALSE]
    ELSE st

\* the flushes with an open fence put out as well
flushAll(st) ==
    IF st.inCodeBlock
    THEN [flushBlockquote(flushList(st)) EXCEPT
            !.html = @ \o <<"<","p","r","e",">","<","c","o","d","e",">">> \o escapeHtml(st.codeBlockContent) \o <<"<","/","c","o","d","e",">","<","/","p","r","e",">">> \o <<"\n">>,
            !.codeBlockContent = <<>>, !.inCodeBlock = FALSE]
    ELSE flushBlockquote(flushList(st))

\* flushList(); flushBlockquote();
flushBoth(st) == CHOOSE done \in {flushBlockquote(flushed) : flushed \in {flushList(st)}} : TRUE

\* the heading level of a line: '#' one to four times, then a space; 0 for no heading
HeadingLevel(line) ==
    IF StartsWith(line, <<"#"," ">>) THEN 1
    ELSE IF StartsWith(line, <<"#","#"," ">>) THEN 2
    ELSE IF StartsWith(line, <<"#","#","#"," ">>) THEN 3
    ELSE IF StartsWith(line, <<"#","#","#","#"," ">>) THEN 4
    ELSE 0

Heading(level, text) ==
    <<"<","h">> \o <<Chr(48 + level)>> \o <<" ","c","l","a","s","s","=","\"","s","e","c","t","i","o","n","-","a","n","c","h","o","r","\""," ","i","d","=","\"">> \o makeId(text)
        \o <<"\"",">">> \o processInlineMarkdown(text) \o <<"<","/","h">> \o <<Chr(48 + level)>> \o <<">","\n">>

\* the body of the loop over the lines
ParseLine(st, line) ==
    IF StartsWith(line, <<Backtick,Backtick,Backtick>>)
    THEN IF st.inCodeBlock
         THEN [st EXCEPT !.html = @ \o <<"<","p","r","e",">","<","c","o","d","e",">">> \o escapeHtml(st.codeBlockContent)
                                      \o <<"<","/","c","o","d","e",">","<","/","p","r","e",">","\n">>,
                         !.codeBlockContent = <<>>, !.inCodeBlock = FALSE]
         ELSE [flushBoth(st) EXCEPT !.inCodeBlock = TRUE, !.codeBlockLang = Trim(From(line, 4))]
    ELSE IF st.inCodeBlock
    THEN [st EXCEPT !.codeBlockContent = @ \o line \o <<"\n">>]
    ELSE IF HeadingLevel(line) > 0
    THEN [flushBoth(st) EXCEPT
            !.html = @ \o Heading(HeadingLevel(line), Trim(From(line, HeadingLevel(line) + 2)))]
    ELSE IF Trim(line) = <<"-","-","-">>
    THEN [flushBoth(st) EXCEPT !.html = @ \o <<"<","h","r",">","\n">>]
    ELSE IF StartsWith(line, <<">"," ">>)
    THEN [flushList(st) EXCEPT !.blockquoteContent = @ \o From(line, 3) \o <<" ">>,
                                !.inBlockquote = TRUE]
    ELSE IF st.inBlockquote /\ Trim(line) = <<>>
    THEN flushBlockquote(st)
    ELSE IF StartsWith(line, <<"-"," ">>) \/ StartsWith(line, <<"*"," ">>)
    THEN [flushBlockquote(st) EXCEPT
            !.listContent = @ \o <<"<","l","i",">">> \o processInlineMarkdown(Trim(From(line, 3)))
                              \o <<"<","/","l","i",">","\n">>,
            !.inList = TRUE]
    ELSE IF st.inList /\ Trim(line) # <<>> /\ ~StartsWith(line, <<"#">>)
    THEN LET trimmed == TrimEnd(st.listContent)
         IN  IF EndsWith(trimmed, <<"<","/","l","i",">">>)
             THEN [st EXCEPT !.listContent =
                      SubSeq(trimmed, 1, Len(trimmed) - 5) \o <<" ">>
                      \o processInlineMarkdown(Trim(line)) \o <<"<","/","l","i",">","\n">>]
             ELSE [st EXCEPT !.listContent = trimmed]
    ELSE IF st.inList /\ Trim(line) = <<>>
    THEN flushList(st)
    ELSE IF Trim(line) = <<>>
    THEN flushBoth(st)
    ELSE [flushBoth(st) EXCEPT !.html = @ \o <<"<","p",">">> \o processInlineMarkdown(line) \o <<"<","/","p",">","\n">>]

\* the loop over the lines, from the locals st
ParseLines(st, lines) ==
    CHOOSE last \in
        {LET upto[k \in 0..Len(ls)] ==
                 IF k = 0 THEN start
                 ELSE CHOOSE after \in {ParseLine(before, ls[k]) : before \in {upto[k - 1]}} : TRUE
         IN  upto[Len(ls)] : start \in {st}, ls \in {lines}} : TRUE

parseMarkdown(md) ==
    CHOOSE html \in {flushBoth(last).html : last \in {ParseLines(RenderStart, Split(md, "\n"))}} : TRUE

-----------------------------------------------------------------------------
(* The build: collect_docs' final sort, then generate_html *)

\* the viewer before the artifact is opened
ViewClosed ==
    /\ PAGES = <<>>
    /\ initialHash = <<>>
    /\ content_html = <<>>
    /\ active = {}
    /\ location_hash = <<>>
    /\ pending = 0
    /\ sidebar_open = FALSE
    /\ menu_text = "trigram"
    /\ inner_width = 1024
    /\ scroll_y = 0
    /\ console_error = {}
    /\ thrown = FALSE

\* DatasetCleaner.__init__'s counters
StatsStart == [total |-> 0, kept |-> 0, dropped |-> 0, rephrased |-> 0, errors |-> 0]

\* the dataset cleaner is not in play
NoClean ==
    /\ entries = <<>>
    /\ limit = 0
    /\ dry_run = FALSE
    /\ clean_i = 0
    /\ cleaned_entries = <<>>
    /\ dropped_entries = <<>>
    /\ stats = StatsStart
    /\ cpc = "off"
    /\ output_file = None
    /\ dropped_file = None

\* no call of parseMarkdown or makeId on its own is under way
NoCall ==
    /\ md_arg = <<>>
    /\ md_lines = <<>>
    /\ line_i = 0
    /\ locals = RenderStart
    /\ rpc = "idle"
    /\ visited = <<>>
    /\ returned = <<>>
    /\ id_text = <<>>
    /\ anchors = <<>>

\* lines 85-87 of collect_docs, and generate_html's first two assignments
SortDocs ==
    /\ pc = "sort"
    /\ sorted_docs' = DictOf(Sorted(docs))
    /\ idx' = 0
    /\ nav_items' = <<>>
    /\ current_section' = None
    /\ pc' = "nav"
    /\ UNCHANGED <<fs, docs, pages_json, view_vars>>
    /\ UNCHANGED <<call_vars, clean_vars>>

\* one iteration of the loop over docs.items()
NavStep ==
    /\ pc = "nav"
    /\ idx < Len(sorted_docs)
    /\ LET title == sorted_docs[idx + 1][1]
           info == sorted_docs[idx + 1][2]
           head == SectionHeader(current_section, GetSection(info))
       IN  /\ nav_items' = nav_items \o head.out \o <<NavLink(info.id, NavTitleOf(title))>>
           /\ current_section' = head.cur
    /\ idx' = idx + 1
    /\ UNCHANGED <<fs, pc, docs, sorted_docs, pages_json, view_vars>>
    /\ UNCHANGED <<call_vars, clean_vars>>

\* the closing marker appended whether or not a group is open
FinishHtmlClosingAlways ==
    /\ pc = "nav"
    /\ idx = Len(sorted_docs)
    /\ nav_items' = Append(nav_items, NavClose)
    /\ pages_json' = JsonDumpsPages(sorted_docs)
    /\ pc' = "built"
    /\ UNCHANGED <<fs, docs, sorted_docs, idx, current_section, view_vars>>
    /\ UNCHANGED <<call_vars, clean_vars>>

\* after the loop: the last group is closed and the page corpus is serialized
FinishHtml ==
    /\ pc = "nav"
    /\ idx = Len(sorted_docs)
    /\ nav_items' = IF current_section.some /\ current_section.val # <<>>
                    THEN Append(nav_items, NavClose)
                    ELSE nav_items
    /\ pages_json' = JsonDumpsPages(sorted_docs)
    /\ pc' = "built"
    /\ UNCHANGED <<fs, docs, sorted_docs, idx, current_section, view_vars>>
    /\ UNCHANGED <<call_vars, clean_vars>>

\* lines 40-83 of collect_docs
CollectDocs ==
    /\ pc = "collect"
    /\ docs' = CollectedDocs(fs)
    /\ pc' = "sort"
    /\ UNCHANGED <<fs, sorted_docs, idx, nav_items, current_section, pages_json, view_vars>>
    /\ UNCHANGED <<call_vars, clean_vars>>

-----------------------------------------------------------------------------
(* The viewer: the script's top level, loadPage and the event handlers *)

MobileBreakpoint == 1024

\* the two viewport widths of the model, one below the breakpoint
Widths == {MobileBreakpoint - 1, MobileBreakpoint}

\* the two texts of the menu button: the trigram and the multiplication sign
MenuIcon == "trigram"
CloseIcon == "times"

\* what location.hash reads after location.hash = v (ids need no percent-encoding)
HashOf(v) ==
    LET frag == IF v # <<>> /\ v[1] = "#" THEN Tail(v) ELSE v
    IN  IF frag = <<>> THEN <<>> ELSE <<"#">> \o frag

\* location.hash.substring(1)
HashFragment(h) == From(h, 2)

\* the fragments the environment may put in the location
Fragments == {<<>>, <<"n","o","p","e">>} \cup {sorted_docs[i][2].id : i \in 1..Len(sorted_docs)}

\* loadPage that also clears the page when the id is unknown
LoadPageClearing(pages, pageId, queued) ==
    LET hits == {i \in 1..Len(pages) : pages[i].id = pageId}
        links == NavLinks(nav_items)
    IN  /\ location_hash' = HashOf(pageId)
        /\ pending' = IF HashOf(pageId) # location_hash THEN queued + 1 ELSE queued
        /\ scroll_y' = 0
        /\ active' = {k \in 1..Len(links) : links[k] = pageId}
        /\ content_html' = IF hits = {} THEN <<>>
                           ELSE parseMarkdown(pages[SetMin(hits)].content)
        /\ console_error' = IF hits = {} THEN console_error \cup {pageId} ELSE console_error

\* loadPage that leaves the class active on the links it had been set on
LoadPageKeepingActive(pages, pageId, queued) ==
    LET hits == {i \in 1..Len(pages) : pages[i].id = pageId}
        links == NavLinks(nav_items)
    IN  IF hits = {}
        THEN /\ console_error' = console_error \cup {pageId}
             /\ pending' = queued
             /\ UNCHANGED <<content_html, active, scroll_y, location_hash>>
        ELSE /\ location_hash' = HashOf(pageId)
             /\ pending' = IF HashOf(pageId) # location_hash THEN queued + 1 ELSE queued
             /\ scroll_y' = 0
             /\ active' = active \cup {k \in 1..Len(links) : links[k] = pageId}
             /\ content_html' = parseMarkdown(pages[SetMin(hits)].content)
             /\ UNCHANGED console_error

\* loadPage whose assignment to location.hash queues an event even when the fragment
\* is the one the location has
LoadPageAlwaysQueuing(pages, pageId, queued) ==
    LET hits == {i \in 1..Len(pages) : pages[i].id = pageId}
        links == NavLinks(nav_items)
    IN  IF hits = {}
        THEN /\ console_error' = console_error \cup {pageId}
             /\ pending' = queued
             /\ UNCHANGED <<content_html, active, scroll_y, location_hash>>
        ELSE /\ location_hash' = HashOf(pageId)
             /\ pending' = queued + 1
             /\ scroll_y' = 0
             /\ active' = {k \in 1..Len(links) : links[k] = pageId}
             /\ content_html' = parseMarkdown(pages[SetMin(hits)].content)
             /\ UNCHANGED console_error

\* loadPage(pageId), called with `queued` hashchange events waiting; assigning a
\* different fragment to location.hash queues one more
LoadPage(pages, pageId, queued) ==
    LET hits == {i \in 1..Len(pages) : pages[i].id = pageId}
        links == NavLinks(nav_items)
    IN  IF hits = {}
        THEN /\ console_error' = console_error \cup {pageId}
             /\ pending' = queued
             /\ UNCHANGED <<content_html, active, scroll_y, location_hash>>
        ELSE /\ location_hash' = HashOf(pageId)
             /\ pending' = IF HashOf(pageId) # location_hash THEN queued + 1 ELSE queued
             /\ scroll_y' = 0
             /\ active' = {k \in 1..Len(links) : links[k] = pageId}
             /\ content_html' = parseMarkdown(pages[SetMin(hits)].content)
             /\ UNCHANGED console_error

\* initialHash || firstPageId, evaluated with the location fragment alone
InitialPageIdHashOnly(pages, hash) == hash

\* initialHash || firstPageId
InitialPageId(pages, hash) == IF hash # <<>> THEN hash ELSE pages[1].id

\* the browser opens docs.html at some fragment and viewport width
OpenArtifact ==
    /\ pc = "built"
    /\ \E frag \in Fragments : location_hash' = HashOf(frag)
    /\ inner_width' \in Widths
    /\ pc' = "loading"
    /\ UNCHANGED <<fs, docs, sorted_docs, idx, nav_items, current_section, pages_json,
                   PAGES, initialHash, content_html, active, pending, sidebar_open,
                   menu_text, scroll_y, console_error, thrown>>
    /\ UNCHANGED <<call_vars, clean_vars>>

\* the script element runs: a data block that holds </script ends the element inside
\* the object literal, which is a syntax error, and then no statement of the script runs
RunScript ==
    /\ pc = "loading"
    /\ IF ClosesScript(pages_json)
       THEN /\ pc' = "broken"
            /\ UNCHANGED view_vars
       ELSE LET pages == ObjectValues(pages_json)
                hash == HashFragment(location_hash)
            IN  /\ pc' = "running"
                /\ PAGES' = pages
                /\ initialHash' = hash
                /\ IF pages = <<>>
                   THEN /\ thrown' = TRUE
                        /\ UNCHANGED <<content_html, active, location_hash, pending,
                                       scroll_y, console_error>>
                   ELSE /\ LoadPage(pages, InitialPageId(pages, hash), pending)
                        /\ UNCHANGED thrown
                /\ UNCHANGED <<sidebar_open, menu_text, inner_width>>
    /\ UNCHANGED build_vars_but_pc
    /\ UNCHANGED <<call_vars, clean_vars>>

\* a click on the k-th nav link: its listener, then the document's (the link is in the sidebar)
NavClick(k) ==
    /\ pc = "running"
    /\ pending < MaxPending
    /\ LoadPage(PAGES, NavLinks(nav_items)[k], pending)
    /\ IF inner_width < MobileBreakpoint
       THEN sidebar_open' = FALSE /\ menu_text' = MenuIcon
       ELSE UNCHANGED <<sidebar_open, menu_text>>
    /\ UNCHANGED <<build_vars, PAGES, initialHash, inner_width, thrown>>
    /\ UNCHANGED <<call_vars, clean_vars>>

\* the hashchange listener falling back to the first page on an empty fragment
HashChangeLoadingFirst ==
    /\ pc = "running"
    /\ pending > 0
    /\ IF HashFragment(location_hash) # <<>>
       THEN LoadPage(PAGES, HashFragment(location_hash), pending - 1)
       ELSE IF PAGES # <<>>
       THEN LoadPage(PAGES, PAGES[1].id, pending - 1)
       ELSE /\ pending' = pending - 1
            /\ UNCHANGED <<content_html, active, scroll_y, location_hash, console_error>>
    /\ UNCHANGED <<build_vars, PAGES, initialHash, sidebar_open, menu_text, inner_width, thrown>>
    /\ UNCHANGED <<call_vars, clean_vars>>

\* the hashchange listener takes one queued event
HashChange ==
    /\ pc = "running"
    /\ pending > 0
    /\ IF HashFragment(location_hash) # <<>>
       THEN LoadPage(PAGES, HashFragment(location_hash), pending - 1)
       ELSE /\ pending' = pending - 1
            /\ UNCHANGED <<content_html, active, scroll_y, location_hash, console_error>>
    /\ UNCHANGED <<build_vars, PAGES, initialHash, sidebar_open, menu_text, inner_width, thrown>>
    /\ UNCHANGED <<call_vars, clean_vars>>

\* the menu button's listener also taking the highlight off the nav links
MenuToggleClearing ==
    /\ pc = "running"
    /\ sidebar_open' = ~sidebar_open
    /\ menu_text' = IF sidebar_open' THEN CloseIcon ELSE MenuIcon
    /\ active' = {}
    /\ UNCHANGED <<build_vars, PAGES, initialHash, content_html, location_hash,
                   pending, inner_width, scroll_y, console_error, thrown>>
    /\ UNCHANGED <<call_vars, clean_vars>>

\* a click on the menu button: its listener, then the document's (the target is the button)
MenuToggle ==
    /\ pc = "running"
    /\ sidebar_open' = ~sidebar_open
    /\ menu_text' = IF sidebar_open' THEN CloseIcon ELSE MenuIcon
    /\ UNCHANGED <<build_vars, PAGES, initialHash, content_html, active, location_hash,
                   pending, inner_width, scroll_y, console_error, thrown>>
    /\ UNCHANGED <<call_vars, clean_vars>>

\* a click outside the sidebar and the menu button: the document's listener
OutsideClick ==
    /\ pc = "running"
    /\ IF inner_width < MobileBreakpoint
       THEN sidebar_open' = FALSE /\ menu_text' = MenuIcon
       ELSE UNCHANGED <<sidebar_open, menu_text>>
    /\ UNCHANGED <<build_vars, PAGES, initialHash, content_html, active, location_hash,
                   pending, inner_width, scroll_y, console_error, thrown>>
    /\ UNCHANGED <<call_vars, clean_vars>>

\* the environment: back, forward, an edited address or an anchor of the page
\* changes the fragment, which queues a hashchange event
Navigate ==
    /\ pc = "running"
    /\ pending < MaxPending
    /\ \E frag \in Fragments :
          /\ HashOf(frag) # location_hash
          /\ location_hash' = HashOf(frag)
    /\ pending' = pending + 1
    /\ UNCHANGED <<build_vars, PAGES, initialHash, content_html, active, sidebar_open,
                   menu_text, inner_width, scroll_y, console_error, thrown>>
    /\ UNCHANGED <<call_vars, clean_vars>>

\* the environment: the window is resized across the breakpoint
Resize ==
    /\ pc = "running"
    /\ inner_width' \in Widths \ {inner_width}
    /\ UNCHANGED <<build_vars, PAGES, initialHash, content_html, active, location_hash,
                   pending, sidebar_open, menu_text, scroll_y, console_error, thrown>>
    /\ UNCHANGED <<call_vars, clean_vars>>

\* the environment: the reader scrolls away from the top
Scroll ==
    /\ pc = "running"
    /\ scroll_y = 0
    /\ scroll_y' = 1
    /\ UNCHANGED <<build_vars, PAGES, initialHash, content_html, active, location_hash,
                   pending, sidebar_open, menu_text, inner_width, console_error, thrown>>
    /\ UNCHANGED <<call_vars, clean_vars>>

-----------------------------------------------------------------------------
(* The program: the files found, the build, the viewer *)

ContentHeading == <<"#"," ","H","i"," ","*","x","*","\n","-"," ","a","\n","-"," ","b">>
ContentPlain == <<"x","\n","\n",">"," ","q">>
ContentScript == <<"a"," ","<","/","s","c","r","i","p","t",">"," ","b">>

\* the markdown files that may lie under docs/
FilePool ==
    {[subdir |-> <<"g","e","t","t","i","n","g","-","s","t","a","r","t","e","d">>, stem |-> <<"a","-","b">>, content |-> ContentHeading],
     [subdir |-> <<"g","e","t","t","i","n","g","-","s","t","a","r","t","e","d">>, stem |-> <<"a","_","b">>, content |-> ContentPlain],
     [subdir |-> <<"a","d","v","a","n","c","e","d">>, stem |-> <<"q">>, content |-> ContentPlain],
     [subdir |-> <<"a","d","v","a","n","c","e","d">>, stem |-> <<"d","e","v","e","l","o","p","m","e","n","t">>, content |-> ContentPlain],
     [subdir |-> <<"r","e","f","e","r","e","n","c","e">>, stem |-> <<"s">>, content |-> ContentScript]}

Init ==
    /\ fs \in {[claude |-> c, files |-> F] :
                 c \in {None, Some(ContentHeading)},
                 F \in {G \in SUBSET FilePool : Cardinality(G) <= MaxFiles}}
    /\ pc = "collect"
    /\ docs = <<>>
    /\ sorted_docs = <<>>
    /\ idx = 0
    /\ nav_items = <<>>
    /\ current_section = None
    /\ pages_json = <<>>
    /\ ViewClosed
    /\ NoClean
    /\ NoCall

Next ==
    \/ CollectDocs
    \/ SortDocs
    \/ NavStep
    \/ FinishHtml
    \/ OpenArtifact
    \/ RunScript
    \/ \E k \in 1..Len(NavLinks(nav_items)) : NavClick(k)
    \/ HashChange
    \/ MenuToggle
    \/ OutsideClick
    \/ Navigate
    \/ Resize
    \/ Scroll

Spec == Init /\ [][Next]_vars

\* a queued hashchange event is a task of the event loop: it is run
SpecViewLive == Spec /\ WF_vars(HashChange)

-----------------------------------------------------------------------------
(* The assembler on any mapping of titles to fragment records *)

AsmTitles == {<<"B">>, <<"a">>, <<"S"," ",Arrow," ","A">>}
AsmIds == {<<"x">>, <<"y">>}
AsmOrders == {0, 1}
AsmSections == {<<"s","-","t">>, <<"m","a","i","n">>}
AsmContent(id) == IF id = <<"x">> THEN <<"#"," ","\"","A","\"","\n","\\">> ELSE <<"b">>

AsmInfos ==
    {[id |-> i, content |-> AsmContent(i), order |-> o] : i \in AsmIds, o \in AsmOrders}
    \cup {[id |-> i, content |-> AsmContent(i), order |-> o, section |-> sec] :
            i \in AsmIds, o \in AsmOrders, sec \in AsmSections}

\* the mappings of n entries, in every insertion order
AsmDocs(n) ==
    {[k \in 1..n |-> <<ts[k], is[k]>>] :
        ts \in {t \in [1..n -> AsmTitles] : \A a, b \in 1..n : t[a] = t[b] => a = b},
        is \in [1..n -> AsmInfos]}

InitAsm ==
    /\ fs = [claude |-> None, files |-> {}]
    /\ pc = "sort"
    /\ docs \in UNION {AsmDocs(n) : n \in 0..MaxDocs}
    /\ sorted_docs = <<>>
    /\ idx = 0
    /\ nav_items = <<>>
    /\ current_section = None
    /\ pages_json = <<>>
    /\ ViewClosed
    /\ NoClean
    /\ NoCall

NextAsm == SortDocs \/ NavStep \/ FinishHtml

SpecAsm == InitAsm /\ [][NextAsm]_vars

-----------------------------------------------------------------------------
(* parseMarkdown line by line, on any document of a few lines *)

\* most lines of a document handed to parseMarkdown
MaxLines == 3
\* most calls of parseMarkdown one after another
MaxCalls == 3

\* the build and the viewer are not in play
NoBuild ==
    /\ fs = [claude |-> None, files |-> {}]
    /\ pc = "idle"
    /\ docs = <<>>
    /\ sorted_docs = <<>>
    /\ idx = 0
    /\ nav_items = <<>>
    /\ current_section = None
    /\ pages_json = <<>>
    /\ ViewClosed

\* one line of each kind the loop body tells apart: fence, heading, two list
\* items, blockquote, rule, blank, text, and text that starts with '#'
LinePool == {<<Backtick,Backtick,Backtick>>, <<"#"," ","T">>, <<"-"," ","a">>, <<"*"," ","<","b">>, <<">"," ","q">>, <<"-","-","-">>, <<>>, <<"x"," ","*","*","w","*","*">>, <<"#","x">>}

RECURSIVE JoinLines(_)
\* the document whose lines are ls
JoinLines(ls) ==
    IF Len(ls) = 1 THEN ls[1] ELSE ls[1] \o <<"\n">> \o JoinLines(Tail(ls))

\* the documents of n lines of the pool
MdDocs(n) == {JoinLines(ls) : ls \in [1..n -> LinePool]}

\* four more documents: a heading, a blank line and a paragraph; three list items
\* and a blank line; a fence around a heading line and a list line; two blockquote
\* lines with one emphasis across them, and a heading
DocTitleHello == <<"#"," ","T","i","t","l","e","\n","\n","H","e","l","l","o"," ","*","*","w","o","r","l","d","*","*",".">>
DocThreeItems == <<"-"," ","a","\n","-"," ","b","\n","-"," ","c","\n">>
DocQuote == <<">"," ","*","a">> \o <<"\n">> \o <<">"," "," ","b","*">> \o <<"\n">> \o <<"#"," ","T">>
DocFence == <<Backtick,Backtick,Backtick,"\n","#"," ","T","\n","*"," ","<","b","\n",Backtick,Backtick,Backtick>>

\* the loop's i++ taking two steps at once
NextLineSkipping(k) == k + 2

\* the loop's i++
NextLine(k) == k + 1

\* a call that finds the accumulators as the call before left them
EnterKeepingLocals(m) ==
    /\ md_arg' = m
    /\ md_lines' = Split(m, "\n")
    /\ locals' = [locals EXCEPT !.html = <<>>]
    /\ line_i' = 1
    /\ visited' = <<>>
    /\ rpc' = "loop"

\* parseMarkdown(m) is called: the lines are split and the locals declared
Enter(m) ==
    /\ md_arg' = m
    /\ md_lines' = Split(m, "\n")
    /\ locals' = RenderStart
    /\ line_i' = 1
    /\ visited' = <<>>
    /\ rpc' = "loop"

\* one iteration of the loop over the lines
RenderLine ==
    /\ rpc = "loop"
    /\ line_i <= Len(md_lines)
    /\ locals' = ParseLine(locals, md_lines[line_i])
    /\ visited' = Append(visited, line_i)
    /\ line_i' = NextLine(line_i)
    /\ UNCHANGED <<md_arg, md_lines, rpc, returned, id_text, anchors, build_vars, view_vars, clean_vars>>

\* after the loop: the two flushes and the return
RenderReturn ==
    /\ rpc = "loop"
    /\ line_i > Len(md_lines)
    /\ locals' = flushBoth(locals)
    /\ returned' = Append(returned, [md |-> md_arg, html |-> locals'.html])
    /\ rpc' = "returned"
    /\ UNCHANGED <<md_arg, md_lines, line_i, visited, id_text, anchors, build_vars, view_vars, clean_vars>>

\* the documents parseMarkdown is tried on
AllDocs == UNION {MdDocs(n) : n \in 1..MaxLines} \cup {DocTitleHello, DocThreeItems, DocFence, DocQuote}

\* parseMarkdown is called on a document
CallDoc ==
    /\ pc = "idle"
    /\ rpc = "idle"
    /\ \E m \in AllDocs : Enter(m)
    /\ UNCHANGED <<returned, id_text, anchors, build_vars, view_vars, clean_vars>>

InitRender == NoBuild /\ NoCall /\ NoClean

NextRender == CallDoc \/ RenderLine \/ RenderReturn

SpecRender == InitRender /\ [][NextRender]_vars

\* the loop and the return are straight-line code: a step that can be taken is taken
SpecRenderLive == SpecRender /\ WF_vars(NextRender)

-----------------------------------------------------------------------------
(* loadPage's calls of parseMarkdown, one page after another *)

ContentFence == <<Backtick,Backtick,Backtick,"\n","#"," ","T">>

\* the page contents loadPage may hand to parseMarkdown
PageTexts == {ContentHeading, ContentPlain, ContentScript, ContentFence}

\* loadPage calls parseMarkdown(pageData.content) once the call before has returned
Call ==
    /\ pc = "idle"
    /\ rpc \in {"idle", "returned"}
    /\ Len(returned) < MaxCalls
    /\ \E m \in PageTexts : Enter(m)
    /\ UNCHANGED <<returned, id_text, anchors, build_vars, view_vars, clean_vars>>

InitPages == NoBuild /\ NoCall /\ NoClean

NextPages == RenderLine \/ RenderReturn \/ Call

SpecPages == InitPages /\ [][NextPages]_vars

-----------------------------------------------------------------------------
(* makeId on any short text, and on its own result *)

\* most characters of a text handed to makeId
MaxIdLen == 4

\* an upper-case and a lower-case letter, a digit, a hyphen, a space, an underscore
\* and a punctuation mark
IdAlphabet == {"A", "b", "1", "-", " ", "_", "!"}

TextGettingStarted == <<"G","e","t","t","i","n","g"," ","S","t","a","r","t","e","d","!">>
TextGettingSpaced == <<"g","e","t","t","i","n","g"," "," "," ","s","t","a","r","t","e","d">>

\* the texts makeId is tried on
IdTexts ==
    UNION {[1..n -> IdAlphabet] : n \in 0..MaxIdLen}
    \cup {TextGettingStarted, TextGettingSpaced}

\* const id = makeId(text)
MakeId ==
    /\ pc = "idle"
    /\ anchors = <<>>
    /\ anchors' = <<makeId(id_text)>>
    /\ UNCHANGED <<md_arg, md_lines, line_i, locals, rpc, visited, returned, id_text,
                   build_vars, view_vars, clean_vars>>

\* makeId applied to an identifier it has returned
MakeIdAgain ==
    /\ pc = "idle"
    /\ Len(anchors) = 1
    /\ anchors' = Append(anchors, makeId(anchors[1]))
    /\ UNCHANGED <<md_arg, md_lines, line_i, locals, rpc, visited, returned, id_text,
                   build_vars, view_vars, clean_vars>>

InitId ==
    /\ NoBuild
    /\ NoClean
    /\ md_arg = <<>>
    /\ md_lines = <<>>
    /\ line_i = 0
    /\ locals = RenderStart
    /\ rpc = "idle"
    /\ visited = <<>>
    /\ returned = <<>>
    /\ id_text \in IdTexts
    /\ anchors = <<>>

NextId == MakeId \/ MakeIdAgain

SpecId == InitId /\ [][NextId]_vars

-----------------------------------------------------------------------------
(* parseMarkdown on one line of text: the paragraph rule and processInlineMarkdown *)

\* longest line of text
MaxInline == 6

\* the characters of a line of text: the two delimiters and a letter
InlineAlphabet == {"*", Backtick, "a"}

\* three lines with a link: around a bold span, after an italic one, around a code span
TextLinkBold == <<"[","*","*","a","*","*","]","(","u",")">>
TextItalicLink == <<"*","a","*"," ","[","b","]","(","u",")">>
TextLinkCode == <<"[",Backtick,"a",Backtick,"]","(","u",")">>

InlineTexts ==
    UNION {[1..n -> InlineAlphabet] : n \in 0..MaxInline}
    \cup {TextLinkBold, TextItalicLink, TextLinkCode}

\* parseMarkdown has been called on a line of text
InitInline ==
    /\ NoBuild
    /\ NoClean
    /\ md_arg \in InlineTexts
    /\ md_lines = Split(md_arg, "\n")
    /\ line_i = 1
    /\ locals = RenderStart
    /\ rpc = "loop"
    /\ visited = <<>>
    /\ returned = <<>>
    /\ id_text = <<>>
    /\ anchors = <<>>

NextInline == RenderLine \/ RenderReturn

SpecInline == InitInline /\ [][NextInline]_vars

-----------------------------------------------------------------------------
(* generate_html on sorted corpora whose entries carry any section, or none *)

\* most entries of a sorted corpus handed to generate_html
MaxNav == 4

\* the k-th title and id of such a corpus: "A", "B", ... and "p1", "p2", ...
NavCorpusTitle(k) == <<Chr(64 + k)>>
NavCorpusId(k) == <<"p", Chr(48 + k)>>

\* the k-th record, of section sec or, for the empty string, without the key section
NavCorpusInfo(k, sec) ==
    IF sec = <<>>
    THEN [id |-> NavCorpusId(k), content |-> AsmContent(<<"y">>), order |-> 0]
    ELSE [id |-> NavCorpusId(k), content |-> AsmContent(<<"y">>), order |-> 0, section |-> sec]

\* the corpora of n entries, already in (order, title) order
NavCorpora(n) ==
    {[k \in 1..n |-> <<NavCorpusTitle(k), NavCorpusInfo(k, secs[k])>>] :
        secs \in [1..n -> AsmSections \cup {<<>>}]}

InitNav ==
    /\ fs = [claude |-> None, files |-> {}]
    /\ pc = "sort"
    /\ docs \in UNION {NavCorpora(n) : n \in 0..MaxNav}
    /\ sorted_docs = <<>>
    /\ idx = 0
    /\ nav_items = <<>>
    /\ current_section = None
    /\ pages_json = <<>>
    /\ ViewClosed
    /\ NoClean
    /\ NoCall

SpecNav == InitNav /\ [][NextAsm]_vars

-----------------------------------------------------------------------------
(* The dataset cleaner: DatasetCleaner.review_entry and DatasetCleaner.clean_dataset *)

\* most entries of an input file
MaxEntries == 2

\* the members of Decision, each with its value
Decision == [DROP |-> <<"d","r","o","p">>, KEEP |-> <<"k","e","e","p">>, REPHRASE |-> <<"r","e","p","h","r","a","s","e">>]

\* the values Decision(value) accepts
DecisionValues == {Decision[member] : member \in DOMAIN Decision}

\* REVIEW_PROMPT with its prose shortened: every brace of the template is kept, the
\* two of the JSON example of the response format and the eight of the four fields
REVIEW_PROMPT ==
    <<"J","S","O","N"," ","o","n","l","y",":","\n","{","\n"," "," ","\"","d","e","c","i","s","i","o","n","\"",":"," ","\"","D","R","O","P","\"","\n","}","\n","{","i","n","s","t","r","u","c","t","i","o","n","}","\n","{","o","u","t","p","u","t","}","\n","{","c","a","t","e","g","o","r","y","}"," ","{","s","o","u","r","c","e","}","\n">>

\* d.get(key, default)
GetOr(d, key, default) == IF key \in DOMAIN d THEN d[key] ELSE default

\* template.format(**kwargs): doubled braces are literal braces, a brace opens a
\* replacement field that runs to the next closing brace, the name of the field is
\* the text before its conversion or format spec, and a field whose name is no
\* keyword argument raises KeyError
Format(template, kwargs) ==
    CHOOSE formatted \in
        {LET FieldName(field) ==
                 IF \A i \in 1..Len(field) : field[i] \notin {":", "!"} THEN field
                 ELSE SubSeq(field, 1,
                             SetMin({i \in 1..Len(field) : field[i] \in {":", "!"}}) - 1)
             Formatted(txt, rest) ==
                 IF rest.raised THEN rest ELSE [rest EXCEPT !.text = txt \o @]
             from[k \in 1..(Len(t) + 1)] ==
                 IF k > Len(t) THEN [raised |-> FALSE, error |-> "", text |-> <<>>]
                 ELSE IF k < Len(t) /\ t[k] \in {"{", "}"} /\ t[k + 1] = t[k]
                 THEN Formatted(<<t[k]>>, from[k + 2])
                 ELSE IF t[k] = "}" \/ (t[k] = "{" /\ \A i \in (k + 1)..Len(t) : t[i] # "}")
                 THEN [raised |-> TRUE, error |-> "ValueError", text |-> <<>>]
                 ELSE IF t[k] = "{"
                 THEN LET close == SetMin({i \in (k + 1)..Len(t) : t[i] = "}"})
                          name == FieldName(SubSeq(t, k + 1, close - 1))
                      IN  IF name \notin DOMAIN kwargs
                          THEN [raised |-> TRUE, error |-> "KeyError", text |-> name]
                          ELSE Formatted(kwargs[name], from[close + 1])
                 ELSE Formatted(<<t[k]>>, from[k + 1])
         IN  from[1] : t \in {template}} : TRUE

\* the keyword arguments review_entry formats the prompt with
PromptArgs(entry) ==
    [name \in {<<"i","n","s","t","r","u","c","t","i","o","n">>, <<"o","u","t","p","u","t">>, <<"c","a","t","e","g","o","r","y">>, <<"s","o","u","r","c","e">>} |->
        IF name = <<"i","n","s","t","r","u","c","t","i","o","n">> THEN GetOr(entry, "instruction", <<>>)
        ELSE IF name = <<"o","u","t","p","u","t">> THEN GetOr(entry, "output", <<>>)
        ELSE IF name = <<"c","a","t","e","g","o","r","y">> THEN GetOr(entry, "category", <<"u","n","k","n","o","w","n">>)
        ELSE GetOr(entry, "source", <<"u","n","k","n","o","w","n">>)]

\* what the call of the API and the parse of its response come to: the call raises,
\* the response has no content block, its text is no JSON, it is JSON but no object,
\* or it is an object; a JSON string is Some(s), null is None, a missing key is absent
ApiOutcomes ==
    {[kind |-> "error"], [kind |-> "empty"], [kind |-> "invalid"], [kind |-> "array"]}
    \cup {[kind |-> "object", result |-> r] :
            r \in {[decision |-> Some(<<"D","R","O","P">>), reason |-> Some(<<"r">>)],
                   [decision |-> Some(<<"k","e","e","p">>)],
                   [decision |-> Some(<<"R","e","p","h","r","a","s","e">>), reason |-> Some(<<"r">>),
                    instruction |-> Some(<<"j">>), output |-> None],
                   [decision |-> Some(<<"r","e","p","h","r","a","s","e">>), reason |-> None],
                   [decision |-> Some(<<"m","a","y","b","e">>), reason |-> Some(<<"r">>)],
                   [decision |-> None, reason |-> Some(<<"r">>)],
                   [reason |-> Some(<<"r">>)]}}

\* s.lower()
PyLower(s) == [i \in 1..Len(s) |-> ToLower(s[i])]

\* ReviewResult(decision, reason, instruction, output), returned
ReviewResult(decision, reason, instruction, output) ==
    [raised |-> FALSE, error |-> "", decision |-> decision, reason |-> reason,
     instruction |-> instruction, output |-> output]

\* the try statement of review_entry: both handlers return the decision KEEP
Review(api) ==
    IF api.kind = "invalid"
    THEN ReviewResult(Decision.KEEP, Some(<<"P","a","r","s","e"," ","e","r","r","o","r"," ","-"," ","k","e","e","p","i","n","g"," ","b","y"," ","d","e","f","a","u","l","t">>), None, None)
    ELSE IF \/ api.kind \in {"error", "empty", "array"}
            \/ "decision" \notin DOMAIN api.result
            \/ ~api.result.decision.some
            \/ PyLower(api.result.decision.val) \notin DecisionValues
    THEN ReviewResult(Decision.KEEP, Some(<<"A","P","I"," ","e","r","r","o","r">>), None, None)
    ELSE ReviewResult(PyLower(api.result.decision.val),
                      GetOr(api.result, "reason", Some(<<>>)),
                      GetOr(api.result, "instruction", None),
                      GetOr(api.result, "output", None))

\* review_entry(entry) when the API answers with api: the prompt is formatted before
\* the try statement is entered, so what format raises leaves review_entry
review_entry(entry, api) ==
    LET prompt == Format(REVIEW_PROMPT, PromptArgs(entry))
    IN  IF prompt.raised
        THEN [raised |-> TRUE, error |-> prompt.error, decision |-> <<>>, reason |-> None,
              instruction |-> None, output |-> None]
        ELSE Review(api)

\* a DatasetCleaner is constructed and clean_dataset has read the input file
InitClean ==
    /\ NoBuild
    /\ NoCall
    /\ entries \in UNION {[1..n ->
                              {[instruction |-> <<"i">>, output |-> <<"o">>],
                               [instruction |-> <<"i">>, output |-> <<"p">>,
                                category |-> <<"c">>, source |-> <<"s">>],
                               [output |-> <<"o">>]}] : n \in 0..MaxEntries}
    /\ limit \in {0, 1, 2}
    /\ dry_run \in BOOLEAN
    /\ clean_i = 0
    /\ cleaned_entries = <<>>
    /\ dropped_entries = <<>>
    /\ stats = StatsStart
    /\ cpc = "start"
    /\ output_file = None
    /\ dropped_file = None

\* if limit: entries = entries[:limit]
LimitEntries ==
    /\ cpc = "start"
    /\ entries' = IF limit # 0 THEN SubSeq(entries, 1, IF limit < Len(entries) THEN limit
                                                       ELSE Len(entries))
                  ELSE entries
    /\ cpc' = "loop"
    /\ UNCHANGED <<limit, dry_run, clean_i, cleaned_entries, dropped_entries, stats,
                   output_file, dropped_file, build_vars, view_vars, call_vars>>

\* one iteration of the for loop over entries; an exception of review_entry, or of the
\* slice of a reason that is no string, ends clean_dataset
CleanEntry ==
    /\ cpc = "loop"
    /\ clean_i < Len(entries)
    /\ \E api \in ApiOutcomes :
         LET entry == entries[clean_i + 1]
             counted == [stats EXCEPT !.total = @ + 1]
             result == review_entry(entry, api)
             new_instruction == result.instruction.some /\ result.instruction.val # <<>>
             new_output == result.output.some /\ result.output.val # <<>>
             new_entry ==
                 [key \in DOMAIN entry \cup (IF new_instruction THEN {"instruction"} ELSE {})
                                       \cup (IF new_output THEN {"output"} ELSE {}) |->
                     IF key = "instruction" /\ new_instruction THEN result.instruction.val
                     ELSE IF key = "output" /\ new_output THEN result.output.val
                     ELSE entry[key]]
         IN  IF dry_run
             THEN /\ cleaned_entries' = Append(cleaned_entries, entry)
                  /\ stats' = [counted EXCEPT !.kept = @ + 1]
                  /\ clean_i' = clean_i + 1
                  /\ UNCHANGED <<dropped_entries, cpc>>
             ELSE IF result.raised \/ ~result.reason.some
             THEN /\ stats' = counted
                  /\ cpc' = IF result.raised THEN "raised_review" ELSE "raised_reason"
                  /\ UNCHANGED <<clean_i, cleaned_entries, dropped_entries>>
             ELSE IF result.decision = Decision.DROP
             THEN /\ stats' = [counted EXCEPT !.dropped = @ + 1]
                  /\ dropped_entries' =
                         Append(dropped_entries, [entry |-> entry, reason |-> result.reason.val])
                  /\ clean_i' = clean_i + 1
                  /\ UNCHANGED <<cleaned_entries, cpc>>
             ELSE IF result.decision = Decision.KEEP
             THEN /\ stats' = [counted EXCEPT !.kept = @ + 1]
                  /\ cleaned_entries' = Append(cleaned_entries, entry)
                  /\ clean_i' = clean_i + 1
                  /\ UNCHANGED <<dropped_entries, cpc>>
             ELSE /\ stats' = [counted EXCEPT !.rephrased = @ + 1]
                  /\ cleaned_entries' = Append(cleaned_entries, new_entry)
                  /\ clean_i' = clean_i + 1
                  /\ UNCHANGED <<dropped_entries, cpc>>
    /\ UNCHANGED <<entries, limit, dry_run, output_file, dropped_file,
                   build_vars, view_vars, call_vars>>

\* the loop is over: the cleaned entries are written, and the dropped ones if any
WriteOutputs ==
    /\ cpc = "loop"
    /\ clean_i = Len(entries)
    /\ output_file' = Some(cleaned_entries)
    /\ dropped_file' = IF dropped_entries # <<>> THEN Some(dropped_entries) ELSE dropped_file
    /\ cpc' = "done"
    /\ UNCHANGED <<entries, limit, dry_run, clean_i, cleaned_entries, dropped_entries, stats,
                   build_vars, view_vars, call_vars>>

NextClean == LimitEntries \/ CleanEntry \/ WriteOutputs

SpecClean == InitClean /\ [][NextClean]_vars

-----------------------------------------------------------------------------
(* Claims about the collector and the assembler, checked under SpecAsm and SpecNav *)

Sections(d) == [i \in 1..Len(d) |-> GetSection(d[i][2])]

\* the number of maximal runs of equal adjacent values of a sequence
Runs(q) == Cardinality({i \in 1..Len(q) : i = 1 \/ q[i] # q[i - 1]})

CountKind(items, kind) == Cardinality({i \in 1..Len(items) : items[i].kind = kind})

\* groups open just before nav_items[k]
OpenBefore(items, k) ==
    CountKind(SubSeq(items, 1, k - 1), "open") - CountKind(SubSeq(items, 1, k - 1), "close")

\* C1: the final sort returns exactly the entries of its input, none added and none
\* lost, each adjacent pair non-decreasing under (order, title), the order rank
\* first and the titles compared lexicographically.
C1_SortedPermutation ==
    pc \in {"nav", "built"} =>
        /\ Len(sorted_docs) = Len(docs)
        /\ \A i \in 1..Len(docs) : \E j \in 1..Len(sorted_docs) : sorted_docs[j] = docs[i]
        /\ \A j \in 1..Len(sorted_docs) : \E i \in 1..Len(docs) : sorted_docs[j] = docs[i]
        /\ \A j \in 1..(Len(sorted_docs) - 1) :
              LET a == sorted_docs[j]
                  b == sorted_docs[j + 1]
              IN  \/ a[2].order < b[2].order
                  \/ a[2].order = b[2].order /\ StrLess(a[1], b[1])

\* three entries that the sort moved, two of one rank and one of another
C1_Witness ==
    /\ pc = "built"
    /\ Len(docs) = 3
    /\ sorted_docs # docs
    /\ sorted_docs[1][2].order = sorted_docs[2][2].order
    /\ sorted_docs[2][2].order < sorted_docs[3][2].order
    /\ StrLess(docs[3][1], docs[1][1])

C3_GroupsAreRuns ==
    pc = "built" => CountKind(nav_items, "open") = Runs(Sections(sorted_docs))

\* C4: every navigation link is emitted while exactly one group is open.
C4_LinkInOpenGroup ==
    \A k \in 1..Len(nav_items) :
        nav_items[k].kind = "link" => OpenBefore(nav_items, k) = 1

\* the orders in which the n items of a dict can have been inserted
Orders(n) == {p \in [1..n -> 1..n] : \A a, b \in 1..n : p[a] = p[b] => a = b}

\* C20: the order of the collector's output depends only on the set of (title,
\* fragment) entries: the same entries inserted in any other order sort to the
\* same corpus sequence.
C20_OrderIndependent ==
    pc \in {"nav", "built"} =>
        \A p \in Orders(Len(docs)) :
            DictOf(Sorted([k \in 1..Len(docs) |-> docs[p[k]]])) = sorted_docs

\* three entries sorted, two of one rank inserted against the order of their titles
C20_Witness ==
    /\ pc = "built"
    /\ Len(docs) = 3
    /\ docs[1][2].order = docs[2][2].order
    /\ StrLess(docs[2][1], docs[1][1])
    /\ sorted_docs[1] = docs[2]
    /\ sorted_docs[2] = docs[1]

\* the maximal runs of the value v in a sequence: the places where they start
RunsOf(q, v) == {n \in 1..Len(q) : q[n] = v /\ (n = 1 \/ q[n - 1] # v)}

\* the navigation groups titled after the section label sec
GroupsTitled(items, sec) ==
    {n \in 1..Len(items) :
        items[n] = NavTitle(PyTitle(ReplaceChar(sec, "-", " ")))}

\* C22: runs of fragments of one section label that other fragments separate in sort
\* order are never merged: a label with two or more runs gets one navigation group
\* of that label for each of its runs.
C22_SeparatedRunsSeparateGroups ==
    pc = "built" =>
        \A sec \in AsmSections :
            Cardinality(RunsOf(Sections(sorted_docs), sec)) >= 2 =>
                Cardinality(GroupsTitled(nav_items, sec))
                    = Cardinality(RunsOf(Sections(sorted_docs), sec))

\* C23: the page corpus and the navigation are derived one-to-one from the sorted
\* corpus: the k-th entry yields the k-th page entry, under its title, with its id and
\* its content unmodified, and the k-th navigation link, with its id; there is no
\* other page entry and no other link.
C23_OneToOne ==
    pc = "built" =>
        LET pages == ParseEntries(pages_json, 2, <<>>)
            links == SelectSeq(nav_items, LAMBDA it : it.kind = "link")
        IN  /\ Len(pages) = Len(sorted_docs)
            /\ Len(links) = Len(sorted_docs)
            /\ \A k \in 1..Len(sorted_docs) :
                    /\ pages[k].key = sorted_docs[k][1]
                    /\ pages[k].id = sorted_docs[k][2].id
                    /\ pages[k].content = sorted_docs[k][2].content
                    /\ links[k].id = sorted_docs[k][2].id

\* three entries, moved by the sort, one of them with a content that json.dumps escapes
C23_Witness ==
    /\ pc = "built"
    /\ Len(sorted_docs) = 3
    /\ sorted_docs # docs
    /\ \E k \in 1..3 : Contains(sorted_docs[k][2].content, <<"\"">>)
                        /\ Contains(sorted_docs[k][2].content, <<"\n">>)
    /\ Len(ParseEntries(pages_json, 2, <<>>)) = 3
    /\ Len(NavLinks(nav_items)) = 3

\* C24: an empty corpus is assembled without error into a navigation of no group,
\* no link and no other markup, and into the empty page corpus {}.
C24_EmptyCorpus ==
    (pc = "built" /\ docs = <<>>) =>
        /\ nav_items = <<>>
        /\ pages_json = <<"{", "}">>
        /\ ParseEntries(pages_json, 2, <<>>) = <<>>

\* the assembly of the empty mapping has finished
C24_Witness ==
    /\ pc = "built"
    /\ docs = <<>>
    /\ sorted_docs = <<>>
    /\ idx = 0
    /\ current_section = None
    /\ Len(pages_json) = 2

\* the place in the navigation of its k-th link
LinkPlace(items, k) ==
    CHOOSE n \in 1..Len(items) :
        /\ items[n].kind = "link"
        /\ CountKind(SubSeq(items, 1, n), "link") = k

\* the link at place n lies in a group that is open there and carries the title of
\* the section label sec
InGroupTitled(items, n, sec) ==
    \E o \in 1..(n - 2) :
        /\ items[o].kind = "open"
        /\ items[o + 1] = NavTitle(PyTitle(ReplaceChar(sec, "-", " ")))
        /\ \A j \in (o + 1)..(n - 1) : items[j].kind \notin {"open", "close"}

\* C33: every fragment with a non-empty section label has its link in a navigation
\* group that carries the title made from that label, whatever the label and whatever
\* comes before the fragment in the corpus.
C33_SectionedLinkInTitledGroup ==
    pc = "built" =>
        \A k \in 1..Len(sorted_docs) :
            GetSection(sorted_docs[k][2]) # <<>> =>
                InGroupTitled(nav_items, LinkPlace(nav_items, k), GetSection(sorted_docs[k][2]))

\* C34: the group markers of the navigation are balanced and never nested: after any
\* number of entries at most one group is open, one exactly when current_section is
\* set, no close marker comes without a group open before it, and at the end of the
\* assembly no group is left open.
C34_GroupsBalanced ==
    pc \in {"nav", "built"} =>
        /\ \A k \in 1..(Len(nav_items) + 1) : OpenBefore(nav_items, k) \in {0, 1}
        /\ \A k \in 1..Len(nav_items) :
              /\ nav_items[k].kind = "close" => OpenBefore(nav_items, k) = 1
              /\ nav_items[k].kind = "open" => OpenBefore(nav_items, k) = 0
        /\ pc = "nav" =>
              OpenBefore(nav_items, Len(nav_items) + 1) = (IF current_section.some THEN 1 ELSE 0)
        /\ pc = "built" =>
              /\ OpenBefore(nav_items, Len(nav_items) + 1) = 0
              /\ CountKind(nav_items, "open") = CountKind(nav_items, "close")

\* four entries assembled into three groups: two sections, a section-less entry that
\* closes the second, and one that opens an untitled group
C34_Witness ==
    /\ pc = "built"
    /\ Len(sorted_docs) = 4
    /\ Sections(sorted_docs) = <<<<"m","a","i","n">>, <<"s","-","t">>, <<>>, <<>>>>
    /\ CountKind(nav_items, "open") = 3
    /\ CountKind(nav_items, "close") = 3
    /\ nav_items[Len(nav_items)].kind = "close"

\* the order rank collect_docs has bound the section label sec to
RankOf(sec) ==
    (CHOOSE row \in {SectionTable[n] : n \in 1..Len(SectionTable)} : row.name = sec).order

\* the section labels of the corpus
LabelsOf(d) == {GetSection(d[k][2]) : k \in 1..Len(d)} \ {<<>>}

-----------------------------------------------------------------------------
(* Claims about parseMarkdown, checked under SpecRender, SpecRenderLive and SpecPages *)

IsFence(line) == StartsWith(line, <<Backtick,Backtick,Backtick>>)
IsItem(line) == StartsWith(line, <<"-"," ">>) \/ StartsWith(line, <<"*"," ">>)

\* the fence lines before line k of the document
FencesBefore(k) == {j \in 1..(k - 1) : IsFence(md_lines[j])}

\* line k comes after an opening fence line and not after its closing one
InFenceAt(k) == Cardinality(FencesBefore(k)) % 2 = 1

\* lines a..b of the document, each with its line feed
Verbatim(a, b) == Concat([j \in 1..(b - a + 1) |-> md_lines[a + j - 1] \o <<"\n">>])

RECURSIVE HtmlText(_)
\* the text an HTML parser reads from s: the three entities stand for their characters
HtmlText(s) ==
    IF s = <<>> THEN <<>>
    ELSE IF StartsWith(s, <<"&","l","t",";">>) THEN <<"<">> \o HtmlText(From(s, 5))
    ELSE IF StartsWith(s, <<"&","g","t",";">>) THEN <<">">> \o HtmlText(From(s, 5))
    ELSE IF StartsWith(s, <<"&","a","m","p",";">>) THEN <<"&">> \o HtmlText(From(s, 6))
    ELSE <<s[1]>> \o HtmlText(Tail(s))

\* what the step appends to html, given that it only appends
Emitted == SubSeq(locals'.html, Len(locals.html) + 1, Len(locals'.html))
OnlyAppends == SubSeq(locals'.html, 1, Len(locals.html)) = locals.html

\* C11: a line between an opening fence line and the next fence line goes to the
\* fence buffer as it is and puts out nothing, whatever it starts with: no heading,
\* rule, blockquote, list item or paragraph; the closing fence line puts out one
\* pre/code element whose text is those lines, with no markup character left in it.
C11_FenceVerbatim ==
    [][(RenderLine /\ InFenceAt(line_i)) =>
          IF IsFence(md_lines[line_i])
          THEN LET body == SubSeq(Emitted, 12, Len(Emitted) - 14)
               IN  /\ OnlyAppends
                   /\ StartsWith(Emitted, <<"<","p","r","e",">","<","c","o","d","e",">">>)
                   /\ EndsWith(Emitted, <<"<","/","c","o","d","e",">","<","/","p","r","e",">","\n">>)
                   /\ \A k \in 1..Len(body) : body[k] \notin {"<", ">"}
                   /\ HtmlText(body) = Verbatim(SetMax(FencesBefore(line_i)) + 1, line_i - 1)
          ELSE /\ locals'.html = locals.html
               /\ locals'.listContent = locals.listContent
               /\ locals'.blockquoteContent = locals.blockquoteContent
               /\ locals'.inList = locals.inList
               /\ locals'.inBlockquote = locals.inBlockquote
               /\ locals'.codeBlockContent = locals.codeBlockContent \o md_lines[line_i] \o <<"\n">>]_vars

\* a fence around a heading line and a list line has been rendered
C11_Witness ==
    /\ rpc = "returned"
    /\ md_arg = DocFence
    /\ locals.html = <<"<","p","r","e",">","<","c","o","d","e",">","#"," ","T","\n","*"," ","&","l","t",";","b","\n","<","/","c","o","d","e",">","<","/","p","r","e",">","\n">>

\* the first line of the maximal run of list-item lines that ends with line b
RunStart(b) == SetMin({a \in 1..b : \A j \in a..b : IsItem(md_lines[j])})

\* one list element with the items of lines a..b, in that order
ListOf(a, b) ==
    <<"<","u","l",">","\n">>
    \o Concat([j \in 1..(b - a + 1) |->
                 <<"<","l","i",">">> \o processInlineMarkdown(Trim(From(md_lines[a + j - 1], 3)))
                 \o <<"<","/","l","i",">","\n">>])
    \o <<"<","/","u","l",">","\n">>

\* the step that ends a run of list-item lines whose last line is b: the loop body on
\* the blank line after it, or the return when the run ends the document
EndsRunAt(b) ==
    /\ b >= 1
    /\ IsItem(md_lines[b])
    /\ \/ RenderLine /\ line_i = b + 1 /\ Trim(md_lines[line_i]) = <<>>
       \/ RenderReturn /\ b = Len(md_lines)

\* the locals as they are when the loop reaches line k
LocalsAt(k) == ParseLines(RenderStart, SubSeq(md_lines, 1, k - 1))

\* C12: a maximal run of n >= 1 list-item lines, ended by a blank line or by the end
\* of the document, is put out as exactly one list element with exactly n items, in
\* the order of the lines.
C12_RunIsOneList ==
    [][\A b \in 1..Len(md_lines) :
          EndsRunAt(b) => OnlyAppends /\ Emitted = ListOf(RunStart(b), b)]_vars

\* C12 as amended: so it is for a run that starts outside a fence and with no list
\* open. (A run inside a fence goes to the fence buffer, and a run that follows a
\* continuation line of an open list adds its items to that list.)
C12_FreshRunIsOneList ==
    [][\A b \in 1..Len(md_lines) :
          (/\ EndsRunAt(b)
           /\ ~InFenceAt(RunStart(b))
           /\ ~LocalsAt(RunStart(b)).inList)
          => OnlyAppends /\ Emitted = ListOf(RunStart(b), b)]_vars

\* three list lines and a blank line have been rendered as one list of three items
C12_Witness ==
    /\ rpc = "returned"
    /\ md_arg = DocThreeItems
    /\ locals.html = <<"<","u","l",">","\n","<","l","i",">","a","<","/","l","i",">","\n","<","l","i",">","b","<","/","l","i",">","\n","<","l","i",">","c","<","/","l","i",">","\n","<","/","u","l",">","\n">>

\* C13: on every input string, the empty one and one with an unterminated fence
\* among them, parseMarkdown runs its loop body on each line of the input exactly once,
\* in input order, and then returns a string.
C13_VisitsEachLineOnceAndReturns ==
    /\ [](rpc = "returned" =>
            /\ Len(md_lines) = 1 + Cardinality({k \in 1..Len(md_arg) : md_arg[k] = "\n"})
            /\ JoinLines(md_lines) = md_arg
            /\ visited = [k \in 1..Len(md_lines) |-> k]
            /\ returned[Len(returned)].md = md_arg
            /\ \A k \in 1..Len(locals.html) : locals.html[k] \in Chars)
    /\ <>(rpc = "returned")

\* a document whose fence is never closed has been read to its end and has returned
C13_Witness ==
    /\ rpc = "returned"
    /\ md_lines = <<<<"-"," ","a">>, <<"x"," ","*","*","w","*","*">>, <<Backtick,Backtick,Backtick>>>>
    /\ visited = <<1, 2, 3>>
    /\ locals.inCodeBlock
    /\ returned = <<[md |-> md_arg, html |-> <<"<","u","l",">","\n","<","l","i",">","a"," ","x"," ","<","s","t","r","o","n","g",">","w","<","/","s","t","r","o","n","g",">","<","/","l","i",">","\n","<","/","u","l",">","\n">>]>>

\* C14: parseMarkdown starts every call with fresh accumulators, so two calls on the
\* same markdown string return the same html, whatever was rendered in between.
C14_SameInputSameHtml ==
    \A j, k \in 1..Len(returned) :
        returned[j].md = returned[k].md => returned[j].html = returned[k].html

\* a page rendered, then a page that ends inside a fence, then the first page again
C14_Witness ==
    /\ rpc = "returned"
    /\ Len(returned) = 3
    /\ returned[1].md = ContentHeading
    /\ returned[2].md = ContentFence
    /\ returned[3].md = ContentHeading
    /\ returned[3].html # <<>>
    /\ locals.codeBlockContent = <<>>

\* the elements of one kind in a rendering: the places where their opening tag starts
Elements(h, tag) == Occurrences(h, tag)

\* the last fence line of the document
LastFence == SetMax({j \in 1..Len(md_lines) : IsFence(md_lines[j])})

\* C25: when the document ends inside a fence, the lines from the last, unmatched
\* fence line on put out nothing, and what comes before it is put out as usual, a
\* list or a blockquote open at the fence line included: the rendering is the
\* rendering of the lines before that fence line.
C25_OpenFenceDropped ==
    (rpc = "returned" /\ InFenceAt(Len(md_lines) + 1)) =>
        /\ locals.html = flushBoth(LocalsAt(LastFence)).html
        /\ returned[Len(returned)].html = locals.html
        /\ Cardinality(Elements(locals.html, <<"<","p","r","e",">">>)) * 2 = Cardinality(FencesBefore(LastFence))

\* a list and a blockquote, each open when a fence starts that never ends
C25_Witness ==
    /\ rpc = "returned"
    /\ \/ /\ md_lines = <<<<"-"," ","a">>, <<Backtick, Backtick, Backtick>>, <<"#"," ","T">>>>
          /\ locals.html = <<"<","u","l",">">> \o <<"\n">> \o <<"<","l","i",">","a","<","/","l","i",">">> \o <<"\n">> \o <<"<","/","u","l",">">> \o <<"\n">>
       \/ /\ md_lines = <<<<">"," ","q">>, <<Backtick, Backtick, Backtick>>, <<"-"," ","a">>>>
          /\ locals.html = <<"<","b","l","o","c","k","q","u","o","t","e",">","q","<","/","b","l","o","c","k","q","u","o","t","e",">">> \o <<"\n">>

\* line k of the document matches none of the rules for a fence line, a heading, a
\* rule, a blockquote line and a list item, and is not blank
IsPlain(line) ==
    /\ Trim(line) # <<>>
    /\ ~IsFence(line)
    /\ HeadingLevel(line) = 0
    /\ Trim(line) # <<"-","-","-">>
    /\ ~StartsWith(line, <<">"," ">>)
    /\ ~IsItem(line)

\* C26: while a list is open, a non-blank line that is no fence line, heading, rule,
\* blockquote line or list item continues the last item: its inline-formatted text is
\* appended after a space inside that item, the list stays open and nothing, so no
\* paragraph, is put out.
C26_PlainLineContinuesItem ==
    [][(RenderLine /\ locals.inList /\ IsPlain(md_lines[line_i])) =>
          /\ locals'.inList
          /\ locals'.html = locals.html
          /\ EndsWith(locals.listContent, <<"<","/","l","i",">">> \o <<"\n">>)
          /\ locals'.listContent =
                SubSeq(locals.listContent, 1, Len(locals.listContent) - 6) \o <<" ">>
                \o processInlineMarkdown(Trim(md_lines[line_i])) \o <<"<","/","l","i",">">> \o <<"\n">>]_vars

IsQuote(line) == StartsWith(line, <<">"," ">>)

\* the first line of the maximal run of blockquote lines that ends with line b
QuoteStart(b) == SetMin({a \in 1..b : \A j \in a..b : IsQuote(md_lines[j])})

\* one blockquote element with the remainders of lines a..b joined by single spaces
QuoteOf(a, b) ==
    <<"<","b","l","o","c","k","q","u","o","t","e",">">>
    \o processInlineMarkdown(Trim(Concat([j \in 1..(b - a + 1) |->
            (IF j = 1 THEN <<>> ELSE <<" ">>) \o From(md_lines[a + j - 1], 3)])))
    \o <<"<","/","b","l","o","c","k","q","u","o","t","e",">">> \o <<"\n">>

\* the step that ends a run of blockquote lines whose last line is b: the loop body on
\* the next line, or the return when the run ends the document
EndsQuoteAt(b) ==
    /\ b >= 1
    /\ IsQuote(md_lines[b])
    /\ \/ RenderLine /\ line_i = b + 1 /\ ~IsQuote(md_lines[line_i])
       \/ RenderReturn /\ b = Len(md_lines)

\* C27: a maximal run of n >= 1 lines that start with '> ' is put out as exactly one
\* blockquote element, by the step on the first line after the run or by the return
\* at the end of the document and before anything else that step puts out; its text
\* is the remainders of the lines joined by single spaces, trimmed and then
\* inline-formatted.
C27_RunIsOneQuote ==
    [][\A b \in 1..Len(md_lines) :
          EndsQuoteAt(b) =>
              /\ OnlyAppends
              /\ StartsWith(Emitted, QuoteOf(QuoteStart(b), b))
              /\ Cardinality(Elements(Emitted, <<"<","b","l","o","c","k","q","u","o","t","e",">">>)) = 1]_vars

\* C27 as amended: so it is for a run outside a fence, and the lines of the run
\* themselves put out no blockquote element. (A run inside a fence goes to the fence
\* buffer.)
C27_RunOutsideFenceIsOneQuote ==
    [][/\ \A b \in 1..Len(md_lines) :
            (EndsQuoteAt(b) /\ ~InFenceAt(b)) =>
                /\ OnlyAppends
                /\ StartsWith(Emitted, QuoteOf(QuoteStart(b), b))
                /\ Cardinality(Elements(Emitted, <<"<","b","l","o","c","k","q","u","o","t","e",">">>)) = 1
       /\ (RenderLine /\ IsQuote(md_lines[line_i]) /\ ~InFenceAt(line_i)) =>
                /\ OnlyAppends
                /\ Elements(Emitted, <<"<","b","l","o","c","k","q","u","o","t","e",">">>) = {}
                /\ locals'.inBlockquote]_vars

\* two blockquote lines with one emphasis across them have been rendered as one
\* blockquote, put out before the heading that closes it
C27_Witness ==
    /\ rpc = "returned"
    /\ md_arg = DocQuote
    /\ locals.html = <<"<","b","l","o","c","k","q","u","o","t","e",">","<","e","m",">","a"," "," ","b","<","/","e","m",">","<","/","b","l","o","c","k","q","u","o","t","e",">">> \o <<"\n">>
                     \o <<"<","h","1"," ","c","l","a","s","s","=">> \o <<"\"">> \o <<"s","e","c","t","i","o","n","-","a","n","c","h","o","r">> \o <<"\"">> \o <<" ","i","d","=">> \o <<"\"">> \o <<"t">> \o <<"\"">> \o <<">","T","<","/","h","1",">">> \o <<"\n">>

\* the modes that are open in the locals st
OpenModes(st) ==
    {m \in {"fence", "list", "blockquote"} :
        \/ m = "fence" /\ st.inCodeBlock
        \/ m = "list" /\ st.inList
        \/ m = "blockquote" /\ st.inBlockquote}

\* C28: before the first line, after every line and at the return, at most one of
\* fence mode, list mode and blockquote mode is open, and the buffer of a mode that is
\* not open is empty.
C28_SingleMode ==
    rpc # "idle" =>
        /\ Cardinality(OpenModes(locals)) <= 1
        /\ ~locals.inCodeBlock => locals.codeBlockContent = <<>>
        /\ ~locals.inList => locals.listContent = <<>>
        /\ ~locals.inBlockquote => locals.blockquoteContent = <<>>

\* a blockquote line has closed the list of the line before it
C28_Witness ==
    /\ rpc = "loop"
    /\ md_lines = <<<<"-"," ","a">>, <<">"," ","q">>, <<Backtick, Backtick, Backtick>>>>
    /\ line_i = 3
    /\ OpenModes(locals) = {"blockquote"}
    /\ locals.blockquoteContent = <<"q"," ">>
    /\ locals.html = <<"<","u","l",">">> \o <<"\n">> \o <<"<","l","i",">","a","<","/","l","i",">">> \o <<"\n">> \o <<"<","/","u","l",">">> \o <<"\n">>

\* where the double-asterisk span that starts at k closes: the first "**" after at
\* least one character; 0 when no such span starts at k
SpanClose(t, k) ==
    IF k + 1 <= Len(t) /\ t[k] = "*" /\ t[k + 1] = "*"
    THEN Find(t, <<"*", "*">>, k + 3)
    ELSE 0

\* the double-asterisk spans of a line, from left to right and not overlapping
DoubleSpans(t) ==
    LET count[k \in 1..(Len(t) + 1)] ==
            IF k > Len(t) THEN 0
            ELSE IF SpanClose(t, k) > 0 THEN 1 + count[SpanClose(t, k) + 2]
            ELSE count[k + 1]
    IN  count[1]

\* the asterisks of a line that belong to none of its double-asterisk spans
StarsOutsideSpans(t) ==
    LET count[k \in 1..(Len(t) + 1)] ==
            IF k > Len(t) THEN 0
            ELSE IF SpanClose(t, k) > 0 THEN count[SpanClose(t, k) + 2]
            ELSE (IF t[k] = "*" THEN 1 ELSE 0) + count[k + 1]
    IN  count[1]

\* the text of the one paragraph element h
ParagraphText(h) == SubSeq(h, 4, Len(h) - 5)

\* t[a] and t[d] are the first pair of backticks of the line, and t[b] and t[c] the
\* only asterisks between them, with text in between
ItalicInCode(t, a, b, c, d) ==
    /\ a < b /\ b + 1 < c /\ c < d
    /\ t[a] = Backtick /\ t[d] = Backtick /\ t[b] = "*" /\ t[c] = "*"
    /\ \A k \in 1..(d - 1) : k \notin {a, b, c} => t[k] \notin {"*", Backtick}

\* C29: the four replacements are made in the order bold, italic, code, link, each on
\* the result of the one before. So a line has as many strong elements as it has
\* double-asterisk spans, a line whose asterisks all belong to such spans has no em
\* element, and an asterisk-delimited text between two backticks is an em element
\* inside the code element.
C29_BoldItalicCodeLink ==
    (rpc = "returned" /\ Len(md_lines) = 1 /\ IsPlain(md_arg)) =>
        LET out == ParagraphText(locals.html)
        IN  /\ locals.html = <<"<","p",">">> \o out \o <<"<","/","p",">">> \o <<"\n">>
            /\ Cardinality(Elements(out, <<"<","s","t","r","o","n","g",">">>)) = DoubleSpans(md_arg)
            /\ StarsOutsideSpans(md_arg) = 0 => Elements(out, <<"<","e","m",">">>) = {}
            /\ \A a, b, c, d \in 1..Len(md_arg) :
                    ItalicInCode(md_arg, a, b, c, d) =>
                        Contains(out, <<"<","c","o","d","e",">">> \o SubSeq(md_arg, a + 1, b - 1)
                                      \o <<"<","e","m",">">> \o SubSeq(md_arg, b + 1, c - 1) \o <<"<","/","e","m",">">>
                                      \o SubSeq(md_arg, c + 1, d - 1) \o <<"<","/","c","o","d","e",">">>)
            /\ md_arg = TextLinkBold =>
                    out = <<"<","a"," ","h","r","e","f","=">> \o <<"\"">> \o <<"u">> \o <<"\"">> \o <<">","<","s","t","r","o","n","g",">","a","<","/","s","t","r","o","n","g",">","<","/","a",">">>
            /\ md_arg = TextItalicLink =>
                    out = <<"<","e","m",">","a","<","/","e","m",">"," ","<","a"," ","h","r","e","f","=">> \o <<"\"">> \o <<"u">> \o <<"\"">> \o <<">","b","<","/","a",">">>
            /\ md_arg = TextLinkCode =>
                    out = <<"<","a"," ","h","r","e","f","=">> \o <<"\"">> \o <<"u">> \o <<"\"">> \o <<">","<","c","o","d","e",">","a","<","/","c","o","d","e",">","<","/","a",">">>

\* a line that is one double-asterisk span
C29_Witness ==
    /\ rpc = "returned"
    /\ md_arg = <<"*", "*", "a", "*", "*">>
    /\ locals.html = <<"<","p",">","<","s","t","r","o","n","g",">","a","<","/","s","t","r","o","n","g",">","<","/","p",">">> \o <<"\n">>

\* an asterisk-delimited text between two backticks
C29_WitnessCode ==
    /\ rpc = "returned"
    /\ md_arg = <<Backtick, "*", "a", "*", Backtick>>
    /\ locals.html = <<"<","p",">","<","c","o","d","e",">","<","e","m",">","a","<","/","e","m",">","<","/","c","o","d","e",">","<","/","p",">">> \o <<"\n">>

\* the list element and the blockquote element made of a buffer
ListElement(buf) == <<"<","u","l",">">> \o <<"\n">> \o buf \o <<"<","/","u","l",">">> \o <<"\n">>
QuoteElement(buf) ==
    <<"<","b","l","o","c","k","q","u","o","t","e",">">> \o processInlineMarkdown(Trim(buf)) \o <<"<","/","b","l","o","c","k","q","u","o","t","e",">">> \o <<"\n">>

\* the step closes the open list, the open blockquote
ClosesList == locals.inList /\ ~locals'.inList
ClosesQuote == locals.inBlockquote /\ ~locals'.inBlockquote

\* the line the loop body is about to run on is outside a fence and is a fence line,
\* a heading, a rule or a blank line
IsCloser(line) ==
    IsFence(line) \/ HeadingLevel(line) > 0 \/ Trim(line) = <<"-","-","-">> \/ Trim(line) = <<>>

\* the list items in a piece of markup
Items(h) == Cardinality(Elements(h, <<"<","l","i",">">>))

\* C30: blocks are put out in the order of their lines. Every step only appends to the
\* output. A fence line, heading, rule, blank line or blockquote line closes an open
\* list, every line but a blockquote line closes an open blockquote, and so does the
\* return; the step that closes one puts the whole accumulated element out first,
\* before what the closing line itself puts out, and no other step puts out a list
\* or a blockquote. A list-item line outside a fence adds one item to the list
\* buffer and a blockquote line its remainder to the blockquote buffer, a buffer is
\* emptied only by being put out, and none is left at the return: each such line is in
\* exactly one element.
C30_BlocksInLineOrder ==
    [][(RenderLine \/ RenderReturn) =>
          /\ OnlyAppends
          /\ (RenderLine /\ ~InFenceAt(line_i) /\ locals.inList
                /\ (IsCloser(md_lines[line_i]) \/ IsQuote(md_lines[line_i]))) => ClosesList
          /\ (RenderLine /\ ~InFenceAt(line_i) /\ locals.inBlockquote
                /\ ~IsQuote(md_lines[line_i])) => ClosesQuote
          /\ RenderReturn => /\ locals.inList => ClosesList
                             /\ locals.inBlockquote => ClosesQuote
                             /\ locals'.listContent = <<>>
                             /\ locals'.blockquoteContent = <<>>
          /\ ClosesList => StartsWith(Emitted, ListElement(locals.listContent))
          /\ ClosesQuote => StartsWith(Emitted, QuoteElement(locals.blockquoteContent))
          /\ Cardinality(Elements(Emitted, <<"<","u","l",">">>)) = IF ClosesList THEN 1 ELSE 0
          /\ Cardinality(Elements(Emitted, <<"<","b","l","o","c","k","q","u","o","t","e",">">>)) = IF ClosesQuote THEN 1 ELSE 0
          /\ Items(locals'.html) + Items(locals'.listContent)
                = Items(locals.html) + Items(locals.listContent)
                  + (IF RenderLine /\ ~InFenceAt(line_i) /\ IsItem(md_lines[line_i])
                     THEN 1 ELSE 0)
          /\ locals'.blockquoteContent =
                IF RenderLine /\ ~InFenceAt(line_i) /\ IsQuote(md_lines[line_i])
                THEN locals.blockquoteContent \o From(md_lines[line_i], 3) \o <<" ">>
                ELSE IF ClosesQuote THEN <<>>
                ELSE locals.blockquoteContent]_vars

\* a list, closed by a blockquote line, and the blockquote, closed by a line of text,
\* have been put out before the paragraph of that line
C30_Witness ==
    /\ rpc = "returned"
    /\ md_lines = <<<<"-"," ","a">>, <<">"," ","q">>, <<"x"," ","*","*","w","*","*">>>>
    /\ locals.html = ListElement(<<"<","l","i",">","a","<","/","l","i",">">> \o <<"\n">>) \o QuoteElement(<<"q"," ">>)
                     \o <<"<","p",">","x"," ","<","s","t","r","o","n","g",">","w","<","/","s","t","r","o","n","g",">","<","/","p",">">> \o <<"\n">>

\* the items of a list buffer: each ends with its closing tag and a line feed
ItemEnds(buf) == Cardinality(Occurrences(buf, <<"<","/","l","i",">","\n">>))

\* the line is handled by the continuation branch when a list is open
IsContinuation(line) == IsPlain(line) /\ ~StartsWith(line, <<"#">>)

\* C31: whenever a list is open its buffer is not empty and ends with a closed item,
\* so the branch that drops a continuation line is never taken: a continuation line
\* handled while a list is open always has its text put inside the last item, and it
\* leaves the number of items in the buffer as it was.
C31_ContinuationNeverDropped ==
    [][(RenderLine \/ RenderReturn) =>
          /\ locals.inList =>
                /\ locals.listContent # <<>>
                /\ EndsWith(locals.listContent, <<"<","/","l","i",">","\n">>)
          /\ (RenderLine /\ locals.inList /\ IsContinuation(md_lines[line_i])) =>
                /\ locals'.inList
                /\ Len(locals'.listContent) > Len(locals.listContent)
                /\ EndsWith(locals'.listContent,
                            <<" ">> \o processInlineMarkdown(Trim(md_lines[line_i])) \o <<"<","/","l","i",">","\n">>)
                /\ ItemEnds(locals'.listContent) = ItemEnds(locals.listContent)
                /\ ItemEnds(locals.listContent) >= 1]_vars

\* a line of text has been put inside the second of two items
C31_Witness ==
    /\ rpc = "returned"
    /\ md_lines = <<<<"-"," ","a">>, <<"-"," ","a">>, <<"x"," ","*","*","w","*","*">>>>
    /\ locals.html = ListElement(<<"<","l","i",">","a","<","/","l","i",">","\n","<","l","i",">","a"," ","x"," ","<","s","t","r","o","n","g",">","w","<","/","s","t","r","o","n","g",">","<","/","l","i",">","\n">>)

\* C17: a level-1 heading line, a blank line and one text line with a double-asterisk
\* span render as exactly one h1 element, its id made from the heading text, followed
\* by exactly one p element in which the span is a strong element, and as nothing
\* else: "# Title", "", "Hello **world**." gives the h1 of id "title" and text "Title"
\* and the paragraph "Hello <strong>world</strong>.".
C17_HeadingThenParagraph ==
    (/\ rpc = "returned"
     /\ Len(md_lines) = 3
     /\ StartsWith(md_lines[1], <<"#"," ">>)
     /\ Trim(md_lines[2]) = <<>>
     /\ md_lines[3] \in {<<"x"," ","*","*","w","*","*">>, <<"H","e","l","l","o"," ","*","*","w","o","r","l","d","*","*",".">>})
    => LET title == Trim(From(md_lines[1], 3))
           slug == [k \in 1..Len(title) |-> ToLower(title[k])]
           para == IF md_lines[3] = <<"x"," ","*","*","w","*","*">>
                   THEN <<"x"," ","<","s","t","r","o","n","g",">","w","<","/","s","t","r","o","n","g",">">>
                   ELSE <<"H","e","l","l","o"," ","<","s","t","r","o","n","g",">","w","o","r","l","d","<","/","s","t","r","o","n","g",">",".">>
       IN  /\ locals.html = <<"<","h","1"," ","c","l","a","s","s","=","\"","s","e","c","t","i","o","n","-","a","n","c","h","o","r","\""," ","i","d","=","\"">> \o slug \o <<"\"",">">>
                            \o title \o <<"<","/","h","1",">","\n","<","p",">">> \o para \o <<"<","/","p",">","\n">>
           /\ Cardinality(Elements(locals.html, <<"<","h">>)) = 1
           /\ Cardinality(Elements(locals.html, <<"<","p",">">>)) = 1
           /\ Cardinality(Elements(locals.html, <<"<","s","t","r","o","n","g",">">>)) = 1
           /\ returned[Len(returned)].html = locals.html

\* "# Title", a blank line and "Hello **world**." have been rendered
C17_Witness ==
    /\ rpc = "returned"
    /\ md_arg = DocTitleHello
    /\ locals.html = <<"<","h","1"," ","c","l","a","s","s","=","\"","s","e","c","t","i","o","n","-","a","n","c","h","o","r","\""," ","i","d","=","\"","t","i","t","l","e","\"",">","T","i","t","l","e","<","/","h","1",">","\n">>
                     \o <<"<","p",">","H","e","l","l","o"," ","<","s","t","r","o","n","g",">","w","o","r","l","d","<","/","s","t","r","o","n","g",">",".","<","/","p",">","\n">>

-----------------------------------------------------------------------------
(* Claims about makeId, checked under SpecId *)

\* C15: the anchor identifier of a heading consists of lower-case letters, digits and
\* hyphens only, and neither starts nor ends with a hyphen: everything that is not a
\* letter, a digit, a hyphen or whitespace has been deleted from the text.
C15_IdLettersDigitsHyphens ==
    anchors # <<>> =>
        LET id == anchors[1]
        IN  /\ \A k \in 1..Len(id) : IsLower(id[k]) \/ IsDigit(id[k]) \/ id[k] = "-"
            /\ id # <<>> => id[1] # "-" /\ id[Len(id)] # "-"

\* t with the letter at position k in its other case
CaseFlipped(t, k) ==
    [t EXCEPT ![k] = IF IsUpper(t[k]) THEN ToLower(t[k]) ELSE ToUpper(t[k])]

\* t with the character c put in after its first k characters
Inserted(t, k, c) == SubSeq(t, 1, k) \o <<c>> \o SubSeq(t, k + 1, Len(t))

\* the texts one edit away from t that differ from it in the case of a letter, in a
\* punctuation mark makeId deletes, or in the length of a run of whitespace
Variants(t) ==
    {CaseFlipped(t, k) : k \in 1..Len(t)}
    \cup {Inserted(t, k, c) : k \in 0..Len(t), c \in {"!", "."}}
    \cup {Inserted(t, k, " ") : k \in {j \in 1..Len(t) : IsSpace(t[j])}}

\* C16: makeId applied to an identifier it returned gives that identifier again, and
\* texts that differ only in letter case, in deleted punctuation or in the length of
\* whitespace runs get the same identifier: "Getting Started!" and
\* "getting   started" both get "getting-started".
C16_IdempotentNormalizing ==
    /\ Len(anchors) = 2 => anchors[2] = anchors[1]
    /\ anchors # <<>> => \A v \in Variants(id_text) : makeId(v) = anchors[1]
    /\ (anchors # <<>> /\ id_text \in {TextGettingStarted, TextGettingSpaced})
          => anchors[1] = <<"g","e","t","t","i","n","g","-","s","t","a","r","t","e","d">>

\* the identifier of "Getting Started!" has been computed and put through makeId again
C16_Witness ==
    /\ id_text = TextGettingStarted
    /\ anchors = <<<<"g","e","t","t","i","n","g","-","s","t","a","r","t","e","d">>, <<"g","e","t","t","i","n","g","-","s","t","a","r","t","e","d">>>>

-----------------------------------------------------------------------------
(* Claims about the viewer, checked under Spec *)

PageIds(pages) == {pages[i].id : i \in 1..Len(pages)}

\* the nav links whose data-page is id
LinksOf(id) == {k \in 1..Len(NavLinks(nav_items)) : NavLinks(nav_items)[k] = id}

\* the content of the source file a page id comes from
SourceContent(id) ==
    IF id = <<"l","a","n","g","u","a","g","e","-","r","e","f","e","r","e","n","c","e">> THEN fs.claude.val
    ELSE (CHOOSE f \in fs.files : f.subdir \o <<"-">> \o f.stem = id).content

\* the page `id` is the one on display: alone highlighted, rendered
Displayed(id) ==
    /\ active = LinksOf(id)
    /\ Cardinality(active) = 1
    /\ content_html = parseMarkdown(SourceContent(id))

\* the step ends with the page `id` on display
DisplayedAfter(id) ==
    /\ active' = LinksOf(id)
    /\ Cardinality(active') = 1
    /\ content_html' = parseMarkdown(SourceContent(id))

\* the step is the script's top level running to its end over a non-empty corpus
InitialLoadStep == pc = "loading" /\ pc' = "running" /\ PAGES' # <<>>

\* C5: the initial load with a non-empty location hash that names no page activates
\* the first page of the corpus, so a page is displayed after the initial load.
C5_UnknownHashLoadsFirst ==
    [][(InitialLoadStep /\ initialHash' # <<>> /\ initialHash' \notin PageIds(PAGES'))
         => DisplayedAfter(PAGES'[1].id)]_vars

\* C6: with a non-empty corpus, every state after the initial load has exactly one
\* active page.
C6_ExactlyOneActive ==
    (pc = "running" /\ PAGES # <<>>) => Cardinality(active) = 1

\* the step calls loadPage with an id that names no page: the hashchange listener
\* on such a fragment, or the initial load on such a hash
LoadsUnknown ==
    \/ /\ pc = "running"
       /\ pending' = pending - 1
       /\ HashFragment(location_hash) # <<>>
       /\ HashFragment(location_hash) \notin PageIds(PAGES)
    \/ /\ InitialLoadStep
       /\ initialHash' # <<>>
       /\ initialHash' \notin PageIds(PAGES')

\* C7: loadPage with an id absent from the corpus changes nothing: the displayed
\* content, the navigation highlight, the location hash and the scroll position
\* stay as they are and nothing is thrown.
C7_UnknownIdNoOp ==
    [][LoadsUnknown =>
          UNCHANGED <<content_html, active, location_hash, scroll_y, thrown>>]_vars

\* a page is on display and an unknown id has been reported and ignored
C7_Witness ==
    /\ pc = "running"
    /\ console_error # {}
    /\ content_html # <<>>
    /\ active # {}
    /\ pending = 0
    /\ HashFragment(location_hash) \notin PageIds(PAGES)

\* the step calls loadPage(id): a click on a link of id, the hashchange listener on
\* the fragment id, or the initial load choosing id
Loads(id) ==
    \/ \E k \in LinksOf(id) : NavClick(k)
    \/ HashChange /\ HashFragment(location_hash) = id
    \/ RunScript /\ InitialLoadStep /\ InitialPageId(PAGES', initialHash') = id

\* C8: after loadPage(id) with id in the corpus, the displayed content is the
\* rendering of that page's content, exactly one navigation entry is active, it is
\* the entry of id, the window is scrolled to the top and the location hash is id.
C8_LoadPageDisplays ==
    [][\A id \in PageIds(PAGES') :
          Loads(id) => /\ DisplayedAfter(id)
                       /\ scroll_y' = 0
                       /\ location_hash' = <<"#">> \o id]_vars

\* the second of two pages is on display at its own hash, scrolled to the top
C8_Witness ==
    /\ pc = "running"
    /\ Len(PAGES) = 2
    /\ Displayed(PAGES[2].id)
    /\ location_hash = <<"#">> \o PAGES[2].id
    /\ initialHash # PAGES[2].id
    /\ pending = 0

\* C9: the initial load with an empty location hash activates the page that is first
\* in corpus sort order; with a hash that is the id of a page it activates that page.
C9_InitialPage ==
    [][InitialLoadStep =>
          /\ location_hash = <<>> => DisplayedAfter(sorted_docs[1][2].id)
          /\ \A i \in 1..Len(sorted_docs) :
                location_hash = <<"#">> \o sorted_docs[i][2].id
                    => DisplayedAfter(sorted_docs[i][2].id)]_vars

\* opened without a hash on a corpus of two pages, the first of them on display
C9_Witness ==
    /\ pc = "running"
    /\ initialHash = <<>>
    /\ Len(sorted_docs) = 2
    /\ Displayed(sorted_docs[1][2].id)
    /\ location_hash = <<"#">> \o sorted_docs[1][2].id

\* what loadPage(id) is to leave behind: the page of a known id on display at its
\* hash, nothing changed for an unknown id
Activated(id) ==
    IF id \in PageIds(PAGES)
    THEN /\ location_hash' = <<"#">> \o id
         /\ scroll_y' = 0
         /\ DisplayedAfter(id)
    ELSE UNCHANGED <<content_html, active, location_hash, scroll_y>>

\* C18: the menu toggle and the outside click change the sidebar only: the displayed
\* content, the navigation highlight, the location hash, the scroll position and the
\* page corpus stay as they are; and an activation selects its page from the link
\* clicked or the fragment alone, whatever the sidebar flag is.
C18_SidebarOrthogonal ==
    [][/\ (MenuToggle \/ OutsideClick) =>
             UNCHANGED <<content_html, active, location_hash, scroll_y, PAGES,
                         pending, console_error, thrown>>
       /\ \A k \in 1..Len(NavLinks(nav_items)) :
             NavClick(k) => Activated(NavLinks(nav_items)[k])
       /\ (HashChange /\ HashFragment(location_hash) # <<>>) =>
             Activated(HashFragment(location_hash))]_vars

\* the sidebar has been opened on a small viewport while a page is on display
C18_Witness ==
    /\ pc = "running"
    /\ sidebar_open
    /\ menu_text = CloseIcon
    /\ inner_width < MobileBreakpoint
    /\ Len(PAGES) = 2
    /\ Displayed(PAGES[2].id)

\* C19: the hashchange listener on an empty fragment changes nothing of the viewer;
\* on a non-empty fragment h it does what loadPage(h) does and nothing else.
C19_HashChange ==
    [][HashChange =>
          /\ UNCHANGED <<PAGES, initialHash, sidebar_open, menu_text, inner_width, thrown>>
          /\ IF HashFragment(location_hash) = <<>>
             THEN UNCHANGED <<content_html, active, location_hash, scroll_y, console_error>>
             ELSE Activated(HashFragment(location_hash))]_vars

\* a hashchange event on the empty fragment has been handled with a page on display
C19_Witness ==
    /\ pc = "running"
    /\ location_hash = <<>>
    /\ pending = 0
    /\ content_html # <<>>
    /\ Cardinality(active) = 1

\* the location names a page of the corpus
HashPage == {id \in PageIds(PAGES) : location_hash = <<"#">> \o id}

\* no hashchange event is waiting, and the page the location names, if it names one,
\* is the one on display
Quiescent ==
    pc = "running" => /\ pending = 0
                      /\ \A id \in HashPage : Displayed(id)

\* a step of the viewer or of the reader that is not the hashchange listener
OtherStep ==
    \/ OpenArtifact \/ RunScript \/ Navigate \/ MenuToggle \/ OutsideClick \/ Resize \/ Scroll
    \/ \E k \in 1..Len(NavLinks(nav_items)) : NavClick(k)
    \/ CollectDocs \/ SortDocs \/ NavStep \/ FinishHtml

\* C32: loadPage raises at most one hashchange event, by setting the location hash to
\* the page it has put on display; the listener's run on that event puts the same page
\* on display again, leaves the location as it is and raises no event, so each run
\* takes one event off the queue. Hence, once the reader and the browser add no more
\* events, the viewer comes to rest with no event waiting and with the page named by
\* the location on display.
C32_SelfTriggeringTerminates ==
    /\ [][(InitialLoadStep \/ \E k \in 1..Len(NavLinks(nav_items)) : NavClick(k))
            => pending' <= pending + 1]_vars
    /\ [][HashChange =>
            /\ pending' = pending - 1
            /\ location_hash' = location_hash
            /\ \A id \in HashPage : DisplayedAfter(id)]_vars
    /\ []((pc = "running" /\ pending = 0) => \A id \in HashPage : Displayed(id))
    /\ ([]<><<OtherStep>>_vars \/ <>[]Quiescent)

\* a click on a link has put the second of two pages on display, and its one
\* hashchange event has been handled
C32_Witness ==
    /\ pc = "running"
    /\ pending = 0
    /\ Len(PAGES) = 2
    /\ initialHash = <<>>
    /\ location_hash = <<"#">> \o PAGES[2].id
    /\ Displayed(PAGES[2].id)
    /\ scroll_y = 0

\* the key collect_docs files a markdown file under
TitleKey(f) ==
    (CHOOSE sec \in {SectionTable[n] : n \in 1..Len(SectionTable)} :
        sec.subdir = f.subdir).name \o TitleSep \o FileTitle(f.stem)

\* f and g are two files collect_docs reads, f before g, that get the same title
SameTitle(f, g) ==
    /\ f.subdir = g.subdir
    /\ StrLess(FileName(f), FileName(g))
    /\ FileTitle(f.stem) = FileTitle(g.stem)
    /\ ~Contains(FilePath(f), <<"d","e","v","e","l","o","p","m","e","n","t">>)
    /\ ~Contains(FilePath(g), <<"d","e","v","e","l","o","p","m","e","n","t">>)

\* C21: when two files get the same display title, the later one overwrites the
\* earlier one and nothing is raised: the corpus holds exactly one entry of that
\* title, with the id and the content of the later file, and the earlier file's page
\* is neither in the page corpus nor in the navigation.
C21_LaterTitleWins ==
    \A f, g \in fs.files :
        SameTitle(f, g) =>
            /\ pc # "collect" =>
                  /\ Cardinality({n \in 1..Len(docs) : docs[n][1] = TitleKey(g)}) = 1
                  /\ \A n \in 1..Len(docs) :
                        docs[n][1] = TitleKey(g) =>
                            /\ docs[n][2].id = DocId(g.subdir, g.stem)
                            /\ docs[n][2].content = g.content
            /\ pc \in {"built", "loading", "running", "broken"} =>
                  LET pages == ParseEntries(pages_json, 2, <<>>)
                      ids == [n \in 1..Len(pages) |-> pages[n].id]
                  IN  /\ \A n \in 1..Len(pages) : ids[n] # DocId(f.subdir, f.stem)
                      /\ \A n \in 1..Len(NavLinks(nav_items)) :
                            NavLinks(nav_items)[n] # DocId(f.subdir, f.stem)
                      /\ Cardinality({n \in 1..Len(pages) :
                                        /\ ids[n] = DocId(g.subdir, g.stem)
                                        /\ pages[n].content = g.content}) = 1
                      /\ Cardinality(LinksOf(DocId(g.subdir, g.stem))) = 1

\* two files of one title have been collected and the later one's page is on display
C21_Witness ==
    /\ pc = "running"
    /\ \E f, g \in fs.files : SameTitle(f, g)
    /\ ~fs.claude.some
    /\ Len(PAGES) = 1
    /\ PAGES[1].id = <<"g","e","t","t","i","n","g","-","s","t","a","r","t","e","d","-","a","_","b">>
    /\ Displayed(PAGES[1].id)

\* C10: the page-corpus data block embedded in the script element holds no sequence
\* that ends the element.
C10_NoScriptEnd ==
    pc \in {"built", "loading", "running", "broken"} => ~ClosesScript(pages_json)

-----------------------------------------------------------------------------
(* Claims about the dataset cleaner, checked under SpecClean *)

\* the review fails: the call raises, the response is no JSON object, or its decision
\* is missing or is none of drop, keep and rephrase
FailedReview(api) ==
    \/ api.kind # "object"
    \/ "decision" \notin DOMAIN api.result
    \/ ~api.result.decision.some
    \/ PyLower(api.result.decision.val) \notin DecisionValues

\* C36: review_entry never raises: whatever the entry and whatever the API does, it
\* returns a result, and the result is the decision KEEP when the call fails, the
\* response is no valid JSON, or the decision is missing or unknown; no run of
\* clean_dataset is ended by an exception of review_entry.
C36_ReviewNeverRaises ==
    /\ cpc # "raised_review"
    /\ cpc = "loop" /\ ~dry_run =>
          \A k \in (clean_i + 1)..Len(entries), api \in ApiOutcomes :
              /\ ~review_entry(entries[k], api).raised
              /\ FailedReview(api) => review_entry(entries[k], api).decision = Decision.KEEP

\* the elements of q at the indices of S, in order
PickedAt(q, S) ==
    [j \in 1..Cardinality(S) |-> q[CHOOSE i \in S : Cardinality({x \in S : x <= i}) = j]]

\* new is old, or old with its instruction or its output replaced
KeptOrRephrased(new, old) ==
    /\ DOMAIN old \subseteq DOMAIN new
    /\ DOMAIN new \subseteq DOMAIN old \cup {"instruction", "output"}
    /\ \A key \in DOMAIN old \ {"instruction", "output"} : new[key] = old[key]

\* C37: every processed entry is in exactly one of the cleaned entries and the dropped
\* log, each of the two in input order, so that total = kept + rephrased + dropped and
\* the cleaned output, once written, has kept + rephrased entries.
C37_EveryEntryPlacedOnce ==
    cpc \in {"loop", "raised_review", "raised_reason", "done"} =>
        /\ stats.total = stats.kept + stats.rephrased + stats.dropped
        /\ Len(cleaned_entries) = stats.kept + stats.rephrased
        /\ Len(dropped_entries) = stats.dropped
        /\ \E D \in SUBSET (1..stats.total) :
              /\ [j \in 1..Len(dropped_entries) |-> dropped_entries[j].entry] = PickedAt(entries, D)
              /\ Len(cleaned_entries) = stats.total - Cardinality(D)
              /\ \A j \in 1..Len(cleaned_entries) :
                    KeptOrRephrased(cleaned_entries[j],
                                    PickedAt(entries, (1..stats.total) \ D)[j])
        /\ cpc = "done" =>
              /\ output_file = Some(cleaned_entries)
              /\ Len(output_file.val) = stats.kept + stats.rephrased

====
